---------------------------- MODULE Spec2Model ----------------------------
(***************************************************************************)
(* Load-generation engine of the benchmark suite (src/medusa/main.go):     *)
(* main (lifecycle), LoadGenerator.generateLoad (rate controller and       *)
(* admission), WorkerPool (workers, executeTask) and Metrics (recorder).   *)
(*                                                                         *)
(* Time is counted in timer ticks.  A handled tick carries the time `now`; *)
(* the Go ticker drops ticks for a slow receiver, so two handled ticks are *)
(* 1..MaxGap time units apart.  TicksPerSecond scales time.Second.         *)
(* Percentages and stage durations are drawn from values for which the     *)
(* float64 arithmetic of the source is exact (quarters, halves, powers of  *)
(* two), so int64(float64(x) * p) is the truncated integer quotient.       *)
(***************************************************************************)
EXTENDS Integers, Sequences, FiniteSets, TLC

\* ------------------------------------------------------------------ bounds
MaxTime == 6
MaxGap == 2
TicksPerSecond == 2
MaxSignals == 1
MaxSamples == 1
MaxRequests == 2
MaxBuf == 4
LongLen == 25
MaxRate == 12
MaxFixedWorkers == 2
MaxTotal == 4
MaxWindow == 25

\* ---------------------------------------------------------------- constants
\* if len(m.ErrorSamples) < 100
ErrorSampleCap == 100

VARIABLES
    cfg,                      \* Config (immutable for the run)
    mainPc,                   \* position of main
    sigChan, sigSent,         \* buffered signal channel (cap 1), signals delivered
    gStop, pStop,             \* LoadGenerator.StopChan / WorkerPool.StopChan closed
    tasksClosed, Tasks,       \* WorkerPool.Tasks: closed flag and buffered descriptors
    genPc,                    \* position of generateLoad
    clock, now,               \* wall clock, time carried by the tick being handled
    stageStart, testStart, currentStage,
    currentTargetRPS, startRPS, lastAdaptiveChange,
    secondStart, requestsThisSecond,
    recentSuccess,            \* local of GetRecentErrorRate
    CurrentRate,              \* WorkerPool.CurrentRate
    TotalRequests, SuccessfulRequests, FailedRequests,
    recentSuccessfulRequests, recentFailedRequests, lastSamplingTime,
    RequestDurations, mutex,
    wpc, wtask, wres,         \* per worker: position, descriptor, outcome
    repPc,                    \* position of the reporting goroutine
    calcPc, calcT, calcS, calcF,  \* CalculateStats per caller: position and values read
    targetReaders,                \* goroutines other than generateLoad that read currentTargetRPS while it runs
    snap, nextReport,            \* last snapshot emitted, time of the next reportTicker tick
    admitted, started,        \* history: descriptors enqueued / dequeued
    offer,                    \* history: outcome of the last offer to Tasks
    xVariant, xpc, xIn, xCalls, \* one worker of an executor variant: variant, position,
                              \* outcome the transport produces, record calls made for it
    xDone,                    \* history: descriptors that worker has executed
    stats, fresh,             \* last statistics computed; no record call since then
    rpc, rcall,               \* per recorder: position in Metrics.AddResult, its arguments
    ErrorSamples,             \* Metrics.ErrorSamples (status of each retained sample)
    rStarted,                 \* history: record calls begun
    totalRequests, targetRPS, \* stress_testing RunFixedRequestCountTest: its arguments,
    fixedPc, fixedI,          \* its position and loop index i,
    tasks, tasksShut,         \* the tasks channel (items buffered, closed),
    StopChan,                 \* Platform.StopChan closed,
    fixedW,                   \* per worker goroutine: position
    submitted, lateSubmits,   \* history: sends on tasks, sends after StopChan was closed
    inflightAtStop,           \* history: workers executing when WorkerPool.StopChan closed
    nAdjust, adjPrev, adjLast, \* history: rate adjustments and the ticks they happened on
    evaluated                 \* history: outcomes that entered a window's error rate

genVars == <<genPc, clock, now, stageStart, testStart, currentStage,
             currentTargetRPS, startRPS, lastAdaptiveChange,
             secondStart, requestsThisSecond, recentSuccess, CurrentRate>>
adjVars == <<nAdjust, adjPrev, adjLast, evaluated>>
counterVars == <<TotalRequests, SuccessfulRequests, FailedRequests>>
recentVars == <<recentSuccessfulRequests, recentFailedRequests>>
workerVars == <<wpc, wtask, wres>>
calcVars == <<calcPc, calcT, calcS, calcF, targetReaders>>
fixedVars == <<totalRequests, targetRPS, fixedPc, fixedI, tasks, tasksShut, StopChan, fixedW,
               submitted, lateSubmits>>
execVars == <<xVariant, xpc, xIn, xCalls, xDone>>
statVars == <<stats, fresh>>
recVars == <<rpc, rcall, ErrorSamples, rStarted>>
mainVars == <<mainPc, sigChan, gStop, pStop, tasksClosed, inflightAtStop>>
vars == <<cfg, fixedVars, execVars, statVars, recVars, mainVars, sigSent, Tasks, genVars, adjVars, counterVars, recentVars,
          lastSamplingTime, RequestDurations, mutex, workerVars, repPc, calcVars,
          snap, nextReport, admitted, offer, started>>

\* ----------------------------------------------------------- configuration
Stage(d, t) == [Duration |-> d, TargetRPS |-> t]

Config(w, q, rs, stages, adaptive, ac, dur) ==
    [MaxWorkers |-> w, MaxQueueSize |-> q, ReportingSeconds |-> rs, RampupStages |-> stages,
     AdaptiveRPS |-> adaptive, AdaptiveConfig |-> ac, Duration |-> dur]

AdaptiveConfig(init, thr, inc, dec, min, max, samp, stab) ==
    [InitialRPS |-> init, ErrorThresholdPercentage |-> thr,
     RPSIncreasePercentage |-> inc, RPSDecreasePercentage |-> dec,
     MinimumRPS |-> min, MaximumRPS |-> max,
     SamplingWindow |-> samp, StabilizationWindow |-> stab]

NoAdaptive == AdaptiveConfig(0, 0, 0, 0, 0, 0, 0, 0)

\* Outcomes the transport can produce: latency values and success or failure.
Durations == {1, 2}
Callers == {"reporter", "main"}
NoResult == [success |-> FALSE, duration |-> 0, sampled |-> FALSE]
NoSnap == [kind |-> "none", total |-> 0, success |-> 0, failed |-> 0]

\* ------------------------------------------------------------ pure helpers
\* int64(x) of a float64 quotient: truncation toward zero.
TruncDiv(a, b) == IF a >= 0 THEN a \div b ELSE -((-a) \div b)

PercentOf_Round(rate, pct) == (rate * pct + 50) \div 100

\* int64(float64(rate) * (pct / 100.0))
PercentOf(rate, pct) == TruncDiv(rate * pct, 100)

RECURSIVE Pow2(_)
Pow2(n) == IF n = 0 THEN 1 ELSE 2 * Pow2(n - 1)

RECURSIVE Log2(_)
Log2(n) == IF n <= 1 THEN 0 ELSE 1 + Log2(n \div 2)

\* Natural numbers wider than the checker's integers: sequences of 13-bit
\* limbs, least significant first.  Carry brings limbs of any size below the
\* base.
LimbBase == Pow2(13)

RECURSIVE Carry(_, _)
Carry(limbs, c) ==
    IF limbs = <<>>
    THEN (IF c = 0 THEN <<>> ELSE <<c % LimbBase>> \o Carry(<<>>, c \div LimbBase))
    ELSE <<(Head(limbs) + c) % LimbBase>> \o Carry(Tail(limbs), (Head(limbs) + c) \div LimbBase)

\* float64 division of two small positive integers f < t: the quotient is
\* mant * 2^-(shift + 52), with mant the 53-bit significand (a leading 1 and
\* four limbs of long division) rounded to nearest, ties to even.
RECURSIVE NormShift(_, _)
NormShift(f, t) == IF f >= t THEN 0 ELSE 1 + NormShift(2 * f, t)

Float64Quotient(f, t) ==
    LET shift == NormShift(f, t)
        r0 == f * Pow2(shift) - t
        d1 == (r0 * LimbBase) \div t
        r1 == (r0 * LimbBase) % t
        d2 == (r1 * LimbBase) \div t
        r2 == (r1 * LimbBase) % t
        d3 == (r2 * LimbBase) \div t
        r3 == (r2 * LimbBase) % t
        d4 == (r3 * LimbBase) \div t
        r4 == (r3 * LimbBase) % t
        up == 2 * r4 > t \/ (2 * r4 = t /\ d4 % 2 = 1)
    IN  [shift |-> shift,
         mant |-> Carry(<<d4, d3, d2, d1, 1>>, IF up THEN 1 ELSE 0)]

\* float64(recentFailed) / float64(totalRecent) * 100.0 > thr for 0 < f < t
\* and a whole threshold thr >= 1: the product q * 100 rounds to a float64
\* above thr iff it lies above the midpoint of thr and the next float64,
\* thr + 2^(Log2(thr) - 53); both sides are scaled by 2^(shift + 53).
Float64PercentExceeds(f, t, thr) ==
    LET q == Float64Quotient(f, t)
        a == Carry([i \in 1..Len(q.mant) |-> q.mant[i] * 200], 0)
        b == Carry(<<Pow2(Log2(thr) + q.shift), 0, 0, 0, thr * Pow2(q.shift + 1)>>, 0)
        n == IF Len(a) > Len(b) THEN Len(a) ELSE Len(b)
        A(i) == IF i <= Len(a) THEN a[i] ELSE 0
        B(i) == IF i <= Len(b) THEN b[i] ELSE 0
    IN  \E i \in 1..n : A(i) > B(i) /\ \A j \in (i + 1)..n : A(j) = B(j)

\* Metrics.GetRecentErrorRate() > ErrorThresholdPercentage, in float64:
\* 0.0 for an empty window, 0/t*100 = 0 and t/t*100 = 100 exactly.
ErrorRateExceeds(rs, rf, thr) ==
    IF rs + rf = 0 \/ rf = 0 THEN 0 > thr
    ELSE IF rs = 0 THEN 100 > thr
    ELSE IF thr < 1 THEN TRUE
    ELSE Float64PercentExceeds(rf, rs + rf, thr)

DecreaseRPS_NoFloor(cur, ac) == cur - PercentOf(cur, ac.RPSDecreasePercentage)

DecreaseRPS(cur, ac) ==
    LET r == cur - PercentOf(cur, ac.RPSDecreasePercentage)
    IN  IF r < ac.MinimumRPS THEN ac.MinimumRPS ELSE r

IncreaseRPS(cur, ac) ==
    LET r == cur + PercentOf(cur, ac.RPSIncreasePercentage)
    IN  IF r > ac.MaximumRPS THEN ac.MaximumRPS ELSE r

AdjustRPS(cur, rs, rf, ac) ==
    IF ErrorRateExceeds(rs, rf, ac.ErrorThresholdPercentage)
    THEN DecreaseRPS(cur, ac) ELSE IncreaseRPS(cur, ac)

StabilizationElapsed_SamplingWindow(nowv, last, ac) == nowv - last >= ac.SamplingWindow

\* now.Sub(lastAdaptiveChange) >= StabilizationWindow
StabilizationElapsed(nowv, last, ac) == nowv - last >= ac.StabilizationWindow

\* startRPS + int64(float64(stage.TargetRPS-startRPS) * (elapsed / stage.Duration))
Interpolate(start, target, elapsed, duration) ==
    start + TruncDiv((target - start) * elapsed, duration)

InitialTargetRPS_StagesFirst(c) ==
    IF Len(c.RampupStages) > 0 THEN c.RampupStages[1].TargetRPS
    ELSE IF c.AdaptiveRPS THEN c.AdaptiveConfig.InitialRPS ELSE 0

\* generateLoad, mode selection: the adaptive flag is tested first
InitialTargetRPS(c) ==
    IF c.AdaptiveRPS THEN c.AdaptiveConfig.InitialRPS
    ELSE IF Len(c.RampupStages) > 0 THEN c.RampupStages[1].TargetRPS ELSE 0

\* The process lives until main returns.
Alive == mainPc # "reported"

\* The executor variants of the repository and what the transport can do
\* to one request: the step at which it fails (if any), the status of the
\* response, an application-level error carried in the body, and the two
\* inputs of the error-sampling decision.
Variants == {"medusa", "saleor", "spree", "stress"}
StatusCodes == {101, 200, 204, 299, 300, 400, 500}
PreResponse == {"marshal", "newRequest", "do"}

Faults(v) ==
    CASE v = "medusa" -> {"none", "newRequest", "do"}
      [] v = "saleor" -> {"none", "marshal", "newRequest", "do", "read", "parse"}
      [] v = "spree"  -> {"none", "newRequest", "do"}
      [] v = "stress" -> {"none", "marshal", "newRequest", "do"}

Input(f, s, a, l, d) ==
    [fault |-> f, status |-> s, appError |-> a, logErrors |-> l, sampled |-> d]

Inputs(v) ==
    {Input(f, 0, FALSE, l, d) : f \in Faults(v) \cap PreResponse, l \in BOOLEAN, d \in BOOLEAN}
    \cup
    UNION {{Input(f, st, a, l, d) : f \in Faults(v) \ PreResponse, st \in StatusCodes,
                                    l \in BOOLEAN, d \in BOOLEAN}
           : a \in IF v = "saleor" THEN BOOLEAN ELSE {FALSE}}

NoInput == Input("none", 0, FALSE, FALSE, FALSE)

\* Statistics not computed yet, and the arguments of a record call:
\* AddResult(duration, operation, statusCode, errResp) and the draw that
\* decides whether the duration is sampled.
NoStats == [valid |-> FALSE, total |-> 0, success |-> 0, failed |-> 0, successRate |-> 0,
            p50 |-> 0, p90 |-> 0, p95 |-> 0, p99 |-> 0]
Recorders == 1..2
RecordCall(statusCode, errResp, latency) ==
    [statusCode |-> statusCode, errResp |-> errResp, latency |-> latency]
NoCall == RecordCall(0, FALSE, FALSE)

\* ------------------------------------------------------------------- Init
\* RunFixedRequestCountTest(totalRequests, targetRPS, wg) about to start
\* with nw worker goroutines, on a Platform whose StopChan is open
InitFixed(nw, total, rps) ==
    /\ totalRequests = total /\ targetRPS = rps
    /\ fixedPc = "start" /\ fixedI = 0
    /\ tasks = 0 /\ tasksShut = FALSE
    /\ StopChan = FALSE
    /\ fixedW = [w \in 1..nw |-> "notStarted"]
    /\ submitted = 0 /\ lateSubmits = 0

\* everything but the recorder's lifetime counters and buffers and the
\* fixed-count test
InitCore(c, v) ==
    /\ cfg = c
    /\ xVariant = v /\ xpc = "take" /\ xIn = NoInput /\ xCalls = <<>> /\ xDone = 0
    /\ stats = NoStats /\ fresh = FALSE
    /\ rpc = [r \in Recorders |-> "idle"] /\ rcall = [r \in Recorders |-> NoCall]
    /\ rStarted = 0
    /\ mainPc = "created"
    /\ sigChan = 0 /\ sigSent = 0
    /\ gStop = FALSE /\ pStop = FALSE
    /\ tasksClosed = FALSE /\ Tasks = <<>>
    /\ genPc = "notStarted"
    /\ clock = 0 /\ now = 0
    /\ stageStart = 0 /\ testStart = 0 /\ currentStage = 0
    /\ currentTargetRPS = 0 /\ startRPS = 0 /\ lastAdaptiveChange = 0
    /\ secondStart = 0 /\ requestsThisSecond = 0
    /\ recentSuccess = 0
    /\ CurrentRate = 0
    /\ recentSuccessfulRequests = 0 /\ recentFailedRequests = 0
    /\ lastSamplingTime = 0
    /\ mutex = "free"
    /\ wpc = [w \in 1..c.MaxWorkers |-> "notStarted"]
    /\ wtask = [w \in 1..c.MaxWorkers |-> 0]
    /\ wres = [w \in 1..c.MaxWorkers |-> NoResult]
    /\ repPc = "notStarted"
    /\ calcPc = [who \in Callers |-> "idle"]
    /\ calcT = [who \in Callers |-> 0]
    /\ calcS = [who \in Callers |-> 0]
    /\ calcF = [who \in Callers |-> 0]
    /\ targetReaders = {}
    /\ snap = NoSnap /\ nextReport = 0
    /\ admitted = 0 /\ started = 0
    /\ offer = "none"
    /\ inflightAtStop = 0
    /\ nAdjust = 0 /\ adjPrev = 0 /\ adjLast = 0 /\ evaluated = 0

InitRest(c, v) == InitCore(c, v) /\ InitFixed(1, 0, 1)

\* the recorder after total record calls: success + failed = total
InitMetrics(total, success, failed, durations, samples) ==
    /\ TotalRequests = total /\ SuccessfulRequests = success /\ FailedRequests = failed
    /\ RequestDurations = durations
    /\ ErrorSamples = samples

\* NewMetrics: a fresh recorder
InitVariant(c, v) == InitRest(c, v) /\ InitMetrics(0, 0, 0, <<>>, <<>>)

InitWith(c) == InitVariant(c, "medusa")

\* ------------------------------------------------------------------- main
\* signal.Notify delivery: a non-blocking send on the buffered channel.
EnvSignal ==
    /\ Alive
    /\ sigSent < MaxSignals
    /\ sigSent' = sigSent + 1
    /\ sigChan' = 1
    /\ UNCHANGED <<cfg, fixedVars, execVars, statVars, recVars, mainPc, gStop, pStop, tasksClosed, inflightAtStop, Tasks, genVars,
                   adjVars, counterVars, recentVars, lastSamplingTime, RequestDurations,
                   mutex, workerVars, repPc, calcVars, snap, nextReport, admitted, offer, started>>

\* pool.Start(); generator.Start()
MainStart ==
    /\ mainPc = "created"
    /\ mainPc' = "running"
    /\ wpc' = [w \in DOMAIN wpc |-> "select"]
    /\ genPc' = "init"
    /\ UNCHANGED <<cfg, fixedVars, execVars, statVars, recVars, sigChan, sigSent, gStop, pStop, tasksClosed, inflightAtStop, Tasks,
                   clock, now, stageStart, testStart, currentStage, currentTargetRPS,
                   startRPS, lastAdaptiveChange, secondStart, requestsThisSecond,
                   recentSuccess, CurrentRate, adjVars, counterVars, recentVars,
                   lastSamplingTime, RequestDurations, mutex, wtask, wres, repPc,
                   calcVars, snap, nextReport, admitted, offer, started>>

\* select { case <-sigChan: }
MainSignal ==
    /\ mainPc = "running"
    /\ sigChan = 1
    /\ sigChan' = 0
    /\ mainPc' = "genStop"
    /\ UNCHANGED <<cfg, fixedVars, execVars, statVars, recVars, sigSent, gStop, pStop, tasksClosed, inflightAtStop, Tasks, genVars,
                   adjVars, counterVars, recentVars, lastSamplingTime, RequestDurations,
                   mutex, workerVars, repPc, calcVars, snap, nextReport, admitted, offer, started>>

\* generator.Stop(): close(g.StopChan)
MainGenStop ==
    /\ mainPc = "genStop"
    /\ gStop' = TRUE
    /\ mainPc' = "genWait"
    /\ UNCHANGED <<cfg, fixedVars, execVars, statVars, recVars, sigChan, sigSent, pStop, tasksClosed, inflightAtStop, Tasks, genVars,
                   adjVars, counterVars, recentVars, lastSamplingTime, RequestDurations,
                   mutex, workerVars, repPc, calcVars, snap, nextReport, admitted, offer, started>>

GenExited_NoWait == TRUE

\* g.WaitGroup.Wait() returns once generateLoad has returned
GenExited == genPc = "done"

MainGenWait ==
    /\ mainPc = "genWait"
    /\ GenExited
    /\ mainPc' = "closeTasks"
    /\ UNCHANGED <<cfg, fixedVars, execVars, statVars, recVars, sigChan, sigSent, gStop, pStop, tasksClosed, inflightAtStop, Tasks,
                   genVars, adjVars, counterVars, recentVars, lastSamplingTime,
                   RequestDurations, mutex, workerVars, repPc, calcVars, snap, nextReport, admitted, offer,
                   started>>

\* close(pool.Tasks)
MainCloseTasks ==
    /\ mainPc = "closeTasks"
    /\ tasksClosed' = TRUE
    /\ mainPc' = "poolStop"
    /\ UNCHANGED <<cfg, fixedVars, execVars, statVars, recVars, sigChan, sigSent, gStop, pStop, inflightAtStop, Tasks, genVars,
                   adjVars, counterVars, recentVars, lastSamplingTime, RequestDurations,
                   mutex, workerVars, repPc, calcVars, snap, nextReport, admitted, offer, started>>

Executing(w) == wpc[w] \in {"exec", "addOutcome", "addRecent", "lock"}

\* pool.Stop(): close(p.StopChan)
MainPoolStop ==
    /\ mainPc = "poolStop"
    /\ pStop' = TRUE
    /\ inflightAtStop' = Cardinality({w \in DOMAIN wpc : Executing(w)})
    /\ mainPc' = "poolWait"
    /\ UNCHANGED <<cfg, fixedVars, execVars, statVars, recVars, sigChan, sigSent, gStop, tasksClosed, Tasks, genVars, adjVars,
                   counterVars, recentVars, lastSamplingTime, RequestDurations, mutex,
                   workerVars, repPc, calcVars, snap, nextReport, admitted, offer, started>>

AllWorkersExited_NoWait == TRUE

AllWorkersExited_One == \E w \in DOMAIN wpc : wpc[w] = "exited"

\* p.WaitGroup.Wait() returns once every worker has called Done
AllWorkersExited == \A w \in DOMAIN wpc : wpc[w] = "exited"

MainPoolWait ==
    /\ mainPc = "poolWait"
    /\ AllWorkersExited
    /\ mainPc' = "final"
    /\ UNCHANGED <<cfg, fixedVars, execVars, statVars, recVars, sigChan, sigSent, gStop, pStop, tasksClosed, inflightAtStop, Tasks,
                   genVars, adjVars, counterVars, recentVars, lastSamplingTime,
                   RequestDurations, mutex, workerVars, repPc, calcVars, snap, nextReport, admitted, offer,
                   started>>

\* Lifecycle state of spec section 4.4 as a function of main's position.
Lifecycle ==
    CASE mainPc = "created" -> "Created"
      [] mainPc = "running" -> "Running"
      [] mainPc \in {"genStop", "genWait", "closeTasks", "poolStop", "poolWait"} -> "Stopping"
      [] mainPc \in {"final", "reported"} -> "Stopped"


\* ---------------------------------------------------------------- workers
WorkerTake_Peek(w) ==
    /\ Alive
    /\ wpc[w] = "select"
    /\ Len(Tasks) > 0
    /\ wtask' = [wtask EXCEPT ![w] = Head(Tasks)]
    /\ Tasks' = Tasks
    /\ wpc' = [wpc EXCEPT ![w] = "exec"]
    /\ started' = started + 1
    /\ UNCHANGED <<cfg, fixedVars, execVars, statVars, recVars, mainVars, sigSent, genVars, adjVars, counterVars, recentVars,
                   lastSamplingTime, RequestDurations, mutex, wres, repPc, calcVars,
                   snap, nextReport, admitted, offer>>

\* worker(): select, case task, ok := <-p.Tasks with a descriptor buffered
WorkerTake(w) ==
    /\ Alive
    /\ wpc[w] = "select"
    /\ Len(Tasks) > 0
    /\ wtask' = [wtask EXCEPT ![w] = Head(Tasks)]
    /\ Tasks' = Tail(Tasks)
    /\ wpc' = [wpc EXCEPT ![w] = "exec"]
    /\ started' = started + 1
    /\ UNCHANGED <<cfg, fixedVars, execVars, statVars, recVars, mainVars, sigSent, genVars, adjVars, counterVars, recentVars,
                   lastSamplingTime, RequestDurations, mutex, wres, repPc, calcVars,
                   snap, nextReport, admitted, offer>>

\* worker(): select, case <-p.Tasks on the closed and drained channel (!ok)
WorkerClosed(w) ==
    /\ Alive
    /\ wpc[w] = "select"
    /\ tasksClosed /\ Tasks = <<>>
    /\ wpc' = [wpc EXCEPT ![w] = "exited"]
    /\ UNCHANGED <<cfg, fixedVars, execVars, statVars, recVars, mainVars, sigSent, Tasks, genVars, adjVars, counterVars, recentVars,
                   lastSamplingTime, RequestDurations, mutex, wtask, wres, repPc, calcVars,
                   snap, nextReport, admitted, offer, started>>

\* worker(): select, case <-p.StopChan.  Go chooses among the ready cases at
\* random, so this case competes with WorkerTake when both are ready.
WorkerStop(w) ==
    /\ Alive
    /\ wpc[w] = "select"
    /\ pStop
    /\ wpc' = [wpc EXCEPT ![w] = "exited"]
    /\ UNCHANGED <<cfg, fixedVars, execVars, statVars, recVars, mainVars, sigSent, Tasks, genVars, adjVars, counterVars, recentVars,
                   lastSamplingTime, RequestDurations, mutex, wtask, wres, repPc, calcVars,
                   snap, nextReport, admitted, offer, started>>

\* executeTask: the request completes (or fails) with an outcome, then
\* AddResult starts: atomic.AddInt64(&m.TotalRequests, 1).  The draw of
\* rand.Float64() < 0.01 is taken here as part of the outcome.
WorkerExecute(w, ok, d, smp) ==
    /\ Alive
    /\ wpc[w] = "exec"
    /\ smp => Len(RequestDurations) < MaxSamples
    /\ wres' = [wres EXCEPT ![w] = [success |-> ok, duration |-> IF smp THEN d ELSE 0,
                                     sampled |-> smp]]
    /\ TotalRequests' = TotalRequests + 1
    /\ wpc' = [wpc EXCEPT ![w] = "addOutcome"]
    /\ UNCHANGED <<cfg, fixedVars, execVars, statVars, recVars, mainVars, sigSent, Tasks, genVars, adjVars, SuccessfulRequests,
                   FailedRequests, recentVars, lastSamplingTime, RequestDurations, mutex,
                   wtask, repPc, calcVars, snap, nextReport, admitted, offer, started>>

\* AddResult: atomic.AddInt64 on SuccessfulRequests or FailedRequests
WorkerAddOutcome(w) ==
    /\ Alive
    /\ wpc[w] = "addOutcome"
    /\ IF wres[w].success
       THEN SuccessfulRequests' = SuccessfulRequests + 1 /\ UNCHANGED FailedRequests
       ELSE FailedRequests' = FailedRequests + 1 /\ UNCHANGED SuccessfulRequests
    /\ wpc' = [wpc EXCEPT ![w] = "addRecent"]
    /\ UNCHANGED <<cfg, fixedVars, execVars, statVars, recVars, mainVars, sigSent, Tasks, genVars, adjVars, TotalRequests,
                   recentVars, lastSamplingTime, RequestDurations, mutex, wtask, wres,
                   repPc, calcVars, snap, nextReport, admitted, offer, started>>

\* AddResult: atomic.AddInt64 on the window counter; then the sampling branch
WorkerAddRecent(w) ==
    /\ Alive
    /\ wpc[w] = "addRecent"
    /\ IF wres[w].success
       THEN recentSuccessfulRequests' = recentSuccessfulRequests + 1
            /\ UNCHANGED recentFailedRequests
       ELSE recentFailedRequests' = recentFailedRequests + 1
            /\ UNCHANGED recentSuccessfulRequests
    /\ wpc' = [wpc EXCEPT ![w] = IF wres[w].sampled THEN "lock" ELSE "select"]
    /\ wres' = [wres EXCEPT ![w] = IF wres[w].sampled
                                    THEN [wres[w] EXCEPT !.success = FALSE] ELSE NoResult]
    /\ wtask' = [wtask EXCEPT ![w] = IF wres[w].sampled THEN wtask[w] ELSE 0]
    /\ UNCHANGED <<cfg, fixedVars, execVars, statVars, recVars, mainVars, sigSent, Tasks, genVars, adjVars, counterVars,
                   lastSamplingTime, RequestDurations, mutex, repPc, calcVars,
                   snap, nextReport, admitted, offer, started>>

\* AddResult: m.mutex.Lock(); append; m.mutex.Unlock()
WorkerSample(w) ==
    /\ Alive
    /\ wpc[w] = "lock"
    /\ mutex = "free"
    /\ RequestDurations' = Append(RequestDurations, wres[w].duration)
    /\ wpc' = [wpc EXCEPT ![w] = "select"]
    /\ wres' = [wres EXCEPT ![w] = NoResult]
    /\ wtask' = [wtask EXCEPT ![w] = 0]
    /\ UNCHANGED <<cfg, fixedVars, execVars, statVars, recVars, mainVars, sigSent, Tasks, genVars, adjVars, counterVars, recentVars,
                   lastSamplingTime, mutex, repPc, calcVars, snap, nextReport, admitted, offer,
                   started>>

Worker(w) ==
    \/ WorkerTake(w)
    \/ WorkerClosed(w)
    \/ WorkerStop(w)
    \/ \E ok \in BOOLEAN, d \in Durations, smp \in BOOLEAN : WorkerExecute(w, ok, d, smp)
    \/ WorkerAddOutcome(w)
    \/ WorkerAddRecent(w)
    \/ WorkerSample(w)

\* -------------------------------------------------- Metrics.CalculateStats
\* reportTicker := time.NewTicker(ReportingSeconds * time.Second): the first
\* tick after time t
ReportPeriod == cfg.ReportingSeconds * TicksPerSecond
NextReportTick(t) == ((t \div ReportPeriod) + 1) * ReportPeriod

\* m.mutex.Lock() by the reporting goroutine (on a reportTicker tick) or by main
CalcLock(who) ==
    /\ Alive
    /\ calcPc[who] = "idle"
    /\ IF who = "main" THEN mainPc = "final" ELSE repPc = "select" /\ clock >= nextReport
    /\ nextReport' = IF who = "reporter" THEN NextReportTick(clock) ELSE nextReport
    /\ mutex = "free"
    /\ mutex' = who
    /\ calcPc' = [calcPc EXCEPT ![who] = "readT"]
    /\ repPc' = IF who = "reporter" THEN "calc" ELSE repPc
    /\ UNCHANGED <<cfg, fixedVars, execVars, statVars, recVars, mainVars, sigSent, Tasks, genVars, adjVars, counterVars, recentVars,
                   lastSamplingTime, RequestDurations, workerVars, calcT, calcS, calcF,
                   targetReaders, snap, admitted, offer, started>>

\* generateLoad is between its first statement and its return
GenerateLoadRunning == genPc \notin {"notStarted", "done"}

\* the reporting goroutine follows CalculateStats with
\* stats["targetRPS"] = currentTargetRPS, a read of generateLoad's local
\* through the closure; main's final report has no access to that local
ReadsTargetRPS(who) == who = "reporter"

\* "totalRequests": m.TotalRequests (a plain read)
CalcReadTotal(who) ==
    /\ Alive
    /\ calcPc[who] = "readT"
    /\ calcT' = [calcT EXCEPT ![who] = TotalRequests]
    /\ calcPc' = [calcPc EXCEPT ![who] = "readS"]
    /\ UNCHANGED <<cfg, fixedVars, execVars, statVars, recVars, mainVars, sigSent, Tasks, genVars, adjVars, counterVars, recentVars,
                   lastSamplingTime, RequestDurations, mutex, workerVars, repPc, calcS,
                   calcF, targetReaders, snap, nextReport, admitted, offer, started>>

\* "successfulRequests": m.SuccessfulRequests
CalcReadSuccess(who) ==
    /\ Alive
    /\ calcPc[who] = "readS"
    /\ calcS' = [calcS EXCEPT ![who] = SuccessfulRequests]
    /\ calcPc' = [calcPc EXCEPT ![who] = "readF"]
    /\ UNCHANGED <<cfg, fixedVars, execVars, statVars, recVars, mainVars, sigSent, Tasks, genVars, adjVars, counterVars, recentVars,
                   lastSamplingTime, RequestDurations, mutex, workerVars, repPc, calcT,
                   calcF, targetReaders, snap, nextReport, admitted, offer, started>>

\* "failedRequests": m.FailedRequests; the map is returned, the deferred
\* Unlock runs and the caller prints the snapshot
CalcReadFailed(who) ==
    /\ Alive
    /\ calcPc[who] = "readF"
    /\ calcT' = [calcT EXCEPT ![who] = 0]
    /\ calcS' = [calcS EXCEPT ![who] = 0]
    /\ UNCHANGED calcF
    /\ targetReaders' = IF ReadsTargetRPS(who) /\ GenerateLoadRunning
                        THEN targetReaders \cup {who} ELSE targetReaders
    /\ snap' = [kind |-> IF who = "main" THEN "final" ELSE "periodic",
                total |-> calcT[who], success |-> calcS[who], failed |-> FailedRequests]
    /\ mutex' = "free"
    /\ calcPc' = [calcPc EXCEPT ![who] = "idle"]
    /\ repPc' = IF who = "reporter" THEN "select" ELSE repPc
    /\ mainPc' = IF who = "main" THEN "reported" ELSE mainPc
    /\ UNCHANGED <<cfg, fixedVars, execVars, statVars, recVars, sigChan, sigSent, gStop, pStop, tasksClosed, inflightAtStop, Tasks,
                   genVars, adjVars, counterVars, recentVars, lastSamplingTime,
                   RequestDurations, workerVars, nextReport, admitted, offer, started>>

CalculateStats(who) ==
    \/ CalcLock(who)
    \/ CalcReadTotal(who)
    \/ CalcReadSuccess(who)
    \/ CalcReadFailed(who)

\* reporting goroutine: select, case <-g.StopChan
ReporterStop ==
    /\ Alive
    /\ repPc = "select"
    /\ gStop
    /\ repPc' = "exited"
    /\ UNCHANGED <<cfg, fixedVars, execVars, statVars, recVars, mainVars, sigSent, Tasks, genVars, adjVars, counterVars, recentVars,
                   lastSamplingTime, RequestDurations, mutex, workerVars, calcVars, snap, nextReport,
                   admitted, offer, started>>

\* ------------------------------------------------- LoadGenerator.generateLoad
admitVars == <<secondStart, requestsThisSecond, Tasks, admitted, wpc, wtask, started, offer>>

\* Staged branch of the tick handler: stage advance, then linear
\* interpolation with the `elapsed` computed before the advance.
StagedStep(nowv) ==
    LET n == Len(cfg.RampupStages)
        stage == cfg.RampupStages[currentStage + 1]
        elapsed == nowv - stageStart
        advance == elapsed >= stage.Duration
        cs == IF advance THEN currentStage + 1 ELSE currentStage
        sr == IF advance /\ cs < n THEN currentTargetRPS ELSE startRPS
    IN  IF currentStage >= n
        THEN [done |-> FALSE, stageStart |-> stageStart, currentStage |-> currentStage,
              startRPS |-> startRPS, rate |-> currentTargetRPS]
        ELSE [done |-> advance /\ cs >= n,
              stageStart |-> IF advance THEN nowv ELSE stageStart,
              currentStage |-> cs,
              startRPS |-> sr,
              rate |-> IF cs < n
                       THEN Interpolate(sr, cfg.RampupStages[cs + 1].TargetRPS, elapsed,
                                        cfg.RampupStages[cs + 1].Duration)
                       ELSE currentTargetRPS]

\* now.Sub(secondStart) >= time.Second
SecondElapsed(nowv) == nowv - secondStart >= TicksPerSecond

UnderBudget_OffByOne(rts, rate) == rts <= rate

\* requestsThisSecond < currentTargetRPS
UnderBudget(rts, rate) == rts < rate

HasRoom_OffByOne == Len(Tasks) <= cfg.MaxQueueSize

\* the send case of the select is ready: the channel's buffer has room
HasRoom == Len(Tasks) < cfg.MaxQueueSize

DefaultReady_Blocking == FALSE

\* the default case of the select runs when the send is not ready
DefaultReady == Len(Tasks) >= cfg.MaxQueueSize

Admit_ShedCounts(nowv, rate) ==
    LET reset == SecondElapsed(nowv)
        rts == IF reset THEN 0 ELSE requestsThisSecond
    IN  /\ secondStart' = IF reset THEN nowv ELSE secondStart
        /\ IF UnderBudget(rts, rate)
           THEN \/ /\ HasRoom
                   /\ Tasks' = Append(Tasks, admitted + 1)
                   /\ admitted' = admitted + 1
                   /\ requestsThisSecond' = rts + 1
                   /\ offer' = "sent"
                   /\ UNCHANGED <<wpc, wtask, started>>
                \/ /\ cfg.MaxQueueSize = 0
                   /\ \E w \in DOMAIN wpc :
                        /\ wpc[w] = "select"
                        /\ wpc' = [wpc EXCEPT ![w] = "exec"]
                        /\ wtask' = [wtask EXCEPT ![w] = admitted + 1]
                   /\ admitted' = admitted + 1
                   /\ started' = started + 1
                   /\ requestsThisSecond' = rts + 1
                   /\ offer' = "sent"
                   /\ UNCHANGED Tasks
                \/ /\ DefaultReady
                   /\ requestsThisSecond' = rts + 1
                   /\ offer' = "shed"
                   /\ UNCHANGED <<Tasks, admitted, wpc, wtask, started>>
           ELSE /\ requestsThisSecond' = rts
                /\ offer' = "none"
                /\ UNCHANGED <<Tasks, admitted, wpc, wtask, started>>

\* Per-second budget and the non-blocking offer:
\*   if now.Sub(secondStart) >= time.Second { secondStart = now; requestsThisSecond = 0 }
\*   if requestsThisSecond < currentTargetRPS { select { case Tasks <- task: ++ ; default: } }
\* A send on the channel succeeds when the buffer has room, or (capacity 0)
\* when a worker is parked in its select; otherwise the default case runs.
\* A worker at "select" may not be parked yet, so the default case is
\* possible whenever the buffer has no room.
Admit(nowv, rate) ==
    LET reset == SecondElapsed(nowv)
        rts == IF reset THEN 0 ELSE requestsThisSecond
    IN  /\ secondStart' = IF reset THEN nowv ELSE secondStart
        /\ IF UnderBudget(rts, rate)
           THEN \/ /\ HasRoom
                   /\ Tasks' = Append(Tasks, admitted + 1)
                   /\ admitted' = admitted + 1
                   /\ requestsThisSecond' = rts + 1
                   /\ offer' = "sent"
                   /\ UNCHANGED <<wpc, wtask, started>>
                \/ /\ cfg.MaxQueueSize = 0
                   /\ \E w \in DOMAIN wpc :
                        /\ wpc[w] = "select"
                        /\ wpc' = [wpc EXCEPT ![w] = "exec"]
                        /\ wtask' = [wtask EXCEPT ![w] = admitted + 1]
                   /\ admitted' = admitted + 1
                   /\ started' = started + 1
                   /\ requestsThisSecond' = rts + 1
                   /\ offer' = "sent"
                   /\ UNCHANGED Tasks
                \/ /\ DefaultReady
                   /\ requestsThisSecond' = rts
                   /\ offer' = "shed"
                   /\ UNCHANGED <<Tasks, admitted, wpc, wtask, started>>
           ELSE /\ requestsThisSecond' = rts
                /\ offer' = "none"
                /\ UNCHANGED <<Tasks, admitted, wpc, wtask, started>>

\* generateLoad up to the for loop: initial rate, ResetRecentCounters,
\* lastAdaptiveChange, the reporting goroutine, secondStart
GenInit ==
    /\ Alive
    /\ genPc = "init"
    /\ stageStart' = clock /\ testStart' = clock /\ currentStage' = 0
    /\ currentTargetRPS' = InitialTargetRPS(cfg)
    /\ startRPS' = InitialTargetRPS(cfg)
    /\ CurrentRate' = InitialTargetRPS(cfg)
    /\ recentSuccessfulRequests' = 0 /\ recentFailedRequests' = 0
    /\ lastSamplingTime' = clock
    /\ lastAdaptiveChange' = clock
    /\ repPc' = "select"
    /\ nextReport' = NextReportTick(clock)
    /\ secondStart' = clock /\ requestsThisSecond' = 0
    /\ nAdjust' = 0 /\ adjPrev' = clock /\ adjLast' = clock /\ evaluated' = 0
    /\ genPc' = "wait"
    /\ UNCHANGED <<cfg, fixedVars, execVars, statVars, recVars, mainVars, sigSent, Tasks, clock, now, recentSuccess, counterVars,
                   RequestDurations, mutex, workerVars, calcVars, snap, admitted, offer, started>>

GenStopReady_Never == FALSE

\* the case <-g.StopChan of the generation loop's select is ready
GenStopReady == gStop

\* select, case <-g.StopChan: return
GenStop ==
    /\ Alive
    /\ genPc = "wait"
    /\ GenStopReady
    /\ genPc' = "done"
    /\ UNCHANGED <<cfg, fixedVars, execVars, statVars, recVars, mainVars, sigSent, Tasks, clock, now, stageStart, testStart,
                   currentStage, currentTargetRPS, startRPS, lastAdaptiveChange,
                   secondStart, requestsThisSecond, recentSuccess, CurrentRate, adjVars,
                   counterVars, recentVars, lastSamplingTime, RequestDurations, mutex,
                   workerVars, repPc, calcVars, snap, nextReport, admitted, offer, started>>

\* select, case now := <-ticker.C: duration check, mode logic up to its first
\* access to shared counters, and (when none is needed) the admission.
GenTick(d) ==
    /\ Alive
    /\ genPc = "wait"
    /\ clock + d <= MaxTime
    /\ clock' = clock + d
    /\ now' = clock + d
    /\ LET nowv == clock + d IN
       IF cfg.Duration > 0 /\ nowv - testStart >= cfg.Duration
       THEN /\ genPc' = "done"
            /\ UNCHANGED <<admitVars, stageStart, currentStage, currentTargetRPS, startRPS,
                           recentSuccess, CurrentRate>>
       ELSE IF cfg.AdaptiveRPS
       THEN IF nowv - lastSamplingTime >= cfg.AdaptiveConfig.SamplingWindow
            THEN /\ recentSuccess' = recentSuccessfulRequests
                 /\ genPc' = "loadFailed"
                 /\ UNCHANGED <<admitVars, stageStart, currentStage, currentTargetRPS,
                                startRPS, CurrentRate>>
            ELSE /\ genPc' = "wait"
                 /\ Admit(nowv, currentTargetRPS)
                 /\ UNCHANGED <<stageStart, currentStage, currentTargetRPS, startRPS,
                                recentSuccess, CurrentRate>>
       ELSE LET st == StagedStep(nowv) IN
            /\ stageStart' = st.stageStart
            /\ currentStage' = st.currentStage
            /\ startRPS' = st.startRPS
            /\ currentTargetRPS' = st.rate
            /\ CurrentRate' = IF currentStage < Len(cfg.RampupStages) /\ ~st.done
                              THEN st.rate ELSE CurrentRate
            /\ UNCHANGED recentSuccess
            /\ IF st.done
               THEN genPc' = "done" /\ UNCHANGED admitVars
               ELSE genPc' = "wait" /\ Admit(nowv, st.rate)
    /\ UNCHANGED <<cfg, fixedVars, execVars, statVars, recVars, mainVars, sigSent, testStart, lastAdaptiveChange, adjVars,
                   counterVars, recentVars, lastSamplingTime, RequestDurations, mutex,
                   wres, repPc, calcVars, snap, nextReport>>

GenAdjust_ResetOnlyOnChange ==
    /\ Alive
    /\ genPc = "loadFailed"
    /\ IF StabilizationElapsed(now, lastAdaptiveChange, cfg.AdaptiveConfig)
       THEN /\ currentTargetRPS' = AdjustRPS(currentTargetRPS, recentSuccess,
                                             recentFailedRequests, cfg.AdaptiveConfig)
            /\ CurrentRate' = currentTargetRPS'
            /\ lastAdaptiveChange' = now
            /\ nAdjust' = nAdjust + 1
            /\ adjPrev' = adjLast
            /\ adjLast' = now
            /\ genPc' = "resetSuccess"
       ELSE /\ UNCHANGED <<currentTargetRPS, CurrentRate, lastAdaptiveChange, nAdjust, adjPrev, adjLast>>
            /\ genPc' = "admit"
    /\ evaluated' = evaluated + recentSuccess + recentFailedRequests
    /\ recentSuccess' = 0
    /\ UNCHANGED <<cfg, fixedVars, execVars, statVars, recVars, mainVars, sigSent, Tasks, clock, now, stageStart, testStart,
                   currentStage, startRPS, secondStart, requestsThisSecond,
                   counterVars, recentVars, lastSamplingTime, RequestDurations, mutex,
                   workerVars, repPc, calcVars, snap, nextReport, admitted, offer, started>>

\* GetRecentErrorRate: load of recentFailedRequests; then the stabilization
\* guard and the rate adjustment
GenAdjust ==
    /\ Alive
    /\ genPc = "loadFailed"
    /\ IF StabilizationElapsed(now, lastAdaptiveChange, cfg.AdaptiveConfig)
       THEN /\ currentTargetRPS' = AdjustRPS(currentTargetRPS, recentSuccess,
                                             recentFailedRequests, cfg.AdaptiveConfig)
            /\ CurrentRate' = currentTargetRPS'
            /\ lastAdaptiveChange' = now
            /\ nAdjust' = nAdjust + 1
            /\ adjPrev' = adjLast
            /\ adjLast' = now
       ELSE UNCHANGED <<currentTargetRPS, CurrentRate, lastAdaptiveChange, nAdjust, adjPrev, adjLast>>
    /\ evaluated' = evaluated + recentSuccess + recentFailedRequests
    /\ genPc' = "resetSuccess"
    /\ recentSuccess' = 0
    /\ UNCHANGED <<cfg, fixedVars, execVars, statVars, recVars, mainVars, sigSent, Tasks, clock, now, stageStart, testStart,
                   currentStage, startRPS, secondStart, requestsThisSecond,
                   counterVars, recentVars, lastSamplingTime, RequestDurations, mutex,
                   workerVars, repPc, calcVars, snap, nextReport, admitted, offer, started>>

\* ResetRecentCounters: atomic.StoreInt64(&m.recentSuccessfulRequests, 0)
GenResetSuccess ==
    /\ Alive
    /\ genPc = "resetSuccess"
    /\ recentSuccessfulRequests' = 0
    /\ genPc' = "resetFailed"
    /\ UNCHANGED <<cfg, fixedVars, execVars, statVars, recVars, mainVars, sigSent, Tasks, clock, now, stageStart, testStart,
                   currentStage, currentTargetRPS, startRPS, lastAdaptiveChange,
                   secondStart, requestsThisSecond, recentSuccess, CurrentRate, adjVars,
                   counterVars, recentFailedRequests, lastSamplingTime, RequestDurations,
                   mutex, workerVars, repPc, calcVars, snap, nextReport, admitted, offer, started>>

GenResetFailed_AllCounters ==
    /\ Alive
    /\ genPc = "resetFailed"
    /\ recentFailedRequests' = 0 /\ FailedRequests' = 0
    /\ lastSamplingTime' = clock
    /\ genPc' = "admit"
    /\ UNCHANGED <<cfg, fixedVars, execVars, statVars, recVars, mainVars, sigSent, Tasks, clock, now, stageStart, testStart,
                   currentStage, currentTargetRPS, startRPS, lastAdaptiveChange,
                   secondStart, requestsThisSecond, recentSuccess, CurrentRate, adjVars,
                   TotalRequests, SuccessfulRequests, recentSuccessfulRequests, RequestDurations, mutex,
                   workerVars, repPc, calcVars, snap, nextReport, admitted, offer, started>>

\* ResetRecentCounters: atomic.StoreInt64(&m.recentFailedRequests, 0);
\* m.lastSamplingTime = time.Now()
GenResetFailed ==
    /\ Alive
    /\ genPc = "resetFailed"
    /\ recentFailedRequests' = 0
    /\ lastSamplingTime' = clock
    /\ genPc' = "admit"
    /\ UNCHANGED <<cfg, fixedVars, execVars, statVars, recVars, mainVars, sigSent, Tasks, clock, now, stageStart, testStart,
                   currentStage, currentTargetRPS, startRPS, lastAdaptiveChange,
                   secondStart, requestsThisSecond, recentSuccess, CurrentRate, adjVars,
                   counterVars, recentSuccessfulRequests, RequestDurations, mutex,
                   workerVars, repPc, calcVars, snap, nextReport, admitted, offer, started>>

\* the admission of a tick on which the sampling window was evaluated
GenAdmit ==
    /\ Alive
    /\ genPc = "admit"
    /\ Admit(now, currentTargetRPS)
    /\ genPc' = "wait"
    /\ UNCHANGED <<cfg, fixedVars, execVars, statVars, recVars, mainVars, sigSent, clock, now, stageStart, testStart, currentStage,
                   currentTargetRPS, startRPS, lastAdaptiveChange, recentSuccess,
                   CurrentRate, adjVars, counterVars, recentVars, lastSamplingTime,
                   RequestDurations, mutex, wres, repPc, calcVars, snap, nextReport>>

\* The adaptive branch of one tick whose sampling window and stabilization
\* window have both elapsed, taken as one step: GetRecentErrorRate returned
\* the rate of rs successes and rf failures, the rate is adjusted and
\* stored, the window counters are reset.
AdaptiveWindow(rs, rf) ==
    /\ Alive
    /\ genPc = "wait"
    /\ cfg.AdaptiveRPS
    /\ currentTargetRPS' = AdjustRPS(currentTargetRPS, rs, rf, cfg.AdaptiveConfig)
    /\ CurrentRate' = currentTargetRPS'
    /\ UNCHANGED <<cfg, fixedVars, execVars, statVars, recVars, mainVars, sigSent, Tasks, genPc, clock, now,
                   stageStart, testStart, currentStage, startRPS, lastAdaptiveChange,
                   secondStart, requestsThisSecond, recentSuccess, adjVars, counterVars,
                   recentVars, lastSamplingTime, RequestDurations, mutex, workerVars, repPc,
                   calcVars, snap, nextReport, admitted, offer, started>>

\* ------------------------------------------------------ executor variants
\* One call of Metrics.AddResult: its arguments and how it is counted.
\* The medusa and stress_testing recorders take the success flag itself.
Call(statusCode, errResp, success) ==
    [statusCode |-> statusCode, errResp |-> errResp, success |-> success]

\* medusa: success := err == nil && resp != nil && resp.StatusCode == http.StatusOK
MedusaExecuteTask(in) ==
    IF in.fault = "newRequest"
    THEN <<Call("none", FALSE, FALSE)>>
    ELSE <<Call("none", FALSE, in.fault # "do" /\ in.status = 200)>>

\* saleor Metrics.AddResult: statusCode >= 200 && statusCode < 300 && errResp == nil
SaleorAddResult(statusCode, errResp) == statusCode >= 200 /\ statusCode < 300 /\ ~errResp

SaleorRecord(statusCode, errResp) ==
    Call(statusCode, errResp, SaleorAddResult(statusCode, errResp))

\* saleor executeGraphQLTask after the request body has been marshalled
SaleorSendRequest(in) ==
    IF in.fault = "newRequest" THEN <<SaleorRecord(0, TRUE)>>
    ELSE IF in.fault = "do" THEN <<SaleorRecord(0, TRUE)>>
    ELSE IF in.fault = "read" THEN <<SaleorRecord(in.status, TRUE)>>
    ELSE LET errResp == in.fault = "parse" \/ in.status >= 400 \/ in.appError
         IN  IF errResp /\ in.logErrors /\ in.sampled
             THEN <<SaleorRecord(in.status, TRUE)>>
             ELSE <<SaleorRecord(in.status, FALSE)>>

SaleorExecuteGraphQLTask_SilentMarshal(in) ==
    IF in.fault = "marshal" THEN <<>> ELSE SaleorSendRequest(in)

SaleorExecuteGraphQLTask(in) ==
    IF in.fault = "marshal" THEN <<SaleorRecord(0, TRUE)>> ELSE SaleorSendRequest(in)

\* spree Metrics.AddResult: statusCode >= 200 && statusCode < 300
SpreeAddResult(statusCode) == statusCode >= 200 /\ statusCode < 300

SpreeExecuteTask(in) ==
    IF in.fault \in {"newRequest", "do"}
    THEN <<Call(0, TRUE, SpreeAddResult(0))>>
    ELSE LET errorResponse == in.status >= 400 /\ in.logErrors /\ in.sampled
         IN  <<Call(in.status, errorResponse, SpreeAddResult(in.status))>>

\* stress_testing: success := resp.StatusCode >= 200 && resp.StatusCode < 300
StressExecuteRequest(in) ==
    IF in.fault \in PreResponse
    THEN <<Call("none", FALSE, FALSE)>>
    ELSE <<Call("none", FALSE, in.status >= 200 /\ in.status < 300)>>

Execute(v, in) ==
    CASE v = "medusa" -> MedusaExecuteTask(in)
      [] v = "saleor" -> SaleorExecuteGraphQLTask(in)
      [] v = "spree"  -> SpreeExecuteTask(in)
      [] v = "stress" -> StressExecuteRequest(in)

Successes(calls) == Cardinality({i \in DOMAIN calls : calls[i].success})

\* worker: case task := <-p.Tasks, with the outcome the transport will give
ExecTake ==
    /\ xpc = "take"
    /\ xDone < MaxRequests
    /\ \E in \in Inputs(xVariant) : xIn' = in
    /\ xCalls' = <<>>
    /\ xpc' = "exec"
    /\ UNCHANGED <<cfg, fixedVars, statVars, recVars, xVariant, xDone, mainVars, sigSent, Tasks, genVars, adjVars,
                   counterVars, recentVars, lastSamplingTime, RequestDurations, mutex,
                   workerVars, repPc, calcVars, snap, nextReport, admitted, offer, started>>

\* worker: the executor runs to its return, then the loop is back at its select
ExecRun ==
    /\ xpc = "exec"
    /\ LET calls == Execute(xVariant, xIn) IN
        /\ xCalls' = calls
        /\ TotalRequests' = TotalRequests + Len(calls)
        /\ SuccessfulRequests' = SuccessfulRequests + Successes(calls)
        /\ FailedRequests' = FailedRequests + (Len(calls) - Successes(calls))
    /\ xDone' = xDone + 1
    /\ xpc' = "take"
    /\ UNCHANGED <<cfg, fixedVars, statVars, recVars, xVariant, xIn, mainVars, sigSent, Tasks, genVars, adjVars,
                   recentVars, lastSamplingTime, RequestDurations, mutex,
                   workerVars, repPc, calcVars, snap, nextReport, admitted, offer, started>>

\* ------------------------------------------------- saleor Metrics.AddResult
AddInt64_Racy(v, delta) == IF \A r \in Recorders : rpc[r] = "outcome" THEN v ELSE v + delta

\* atomic.AddInt64(&v, delta)
AddInt64(v, delta) == v + delta

HasSampleRoom_OffByOne(n) == n <= ErrorSampleCap

\* len(m.ErrorSamples) < 100
HasSampleRoom(n) == n < ErrorSampleCap

recFrame == <<cfg, fixedVars, execVars, statVars, mainVars, sigSent, Tasks, genVars, adjVars, recentVars,
              lastSamplingTime, workerVars, repPc, calcVars, snap, nextReport,
              admitted, offer, started>>

\* a worker calls AddResult: atomic.AddInt64(&m.TotalRequests, 1)
RecBegin(r, call) ==
    /\ rpc[r] = "idle"
    /\ rStarted < MaxRequests
    /\ rStarted' = rStarted + 1
    /\ rcall' = [rcall EXCEPT ![r] = call]
    /\ TotalRequests' = AddInt64(TotalRequests, 1)
    /\ rpc' = [rpc EXCEPT ![r] = "counts"]
    /\ UNCHANGED <<SuccessfulRequests, FailedRequests, RequestDurations, ErrorSamples, mutex,
                   recFrame>>

\* m.mutex.Lock(); OperationCounts[operation]++; StatusCodes[statusCode]++; Unlock()
RecCounts(r) ==
    /\ rpc[r] = "counts"
    /\ mutex = "free"
    /\ rpc' = [rpc EXCEPT ![r] = "outcome"]
    /\ UNCHANGED <<counterVars, RequestDurations, ErrorSamples, mutex, rcall, rStarted, recFrame>>

\* the success test and the atomic add to SuccessfulRequests or FailedRequests
RecOutcome(r) ==
    /\ rpc[r] = "outcome"
    /\ IF SaleorAddResult(rcall[r].statusCode, rcall[r].errResp)
       THEN /\ SuccessfulRequests' = AddInt64(SuccessfulRequests, 1)
            /\ rpc' = [rpc EXCEPT ![r] = "latency"]
            /\ UNCHANGED FailedRequests
       ELSE /\ FailedRequests' = AddInt64(FailedRequests, 1)
            /\ rpc' = [rpc EXCEPT ![r] = IF rcall[r].errResp THEN "sample" ELSE "latency"]
            /\ UNCHANGED SuccessfulRequests
    /\ UNCHANGED <<TotalRequests, RequestDurations, ErrorSamples, mutex, rcall, rStarted,
                   recFrame>>

\* m.mutex.Lock(); if len(m.ErrorSamples) < 100 { append }; m.mutex.Unlock()
RecSample(r) ==
    /\ rpc[r] = "sample"
    /\ mutex = "free"
    /\ ErrorSamples' = IF HasSampleRoom(Len(ErrorSamples))
                       THEN Append(ErrorSamples, rcall[r].statusCode) ELSE ErrorSamples
    /\ rpc' = [rpc EXCEPT ![r] = "latency"]
    /\ UNCHANGED <<counterVars, RequestDurations, mutex, rcall, rStarted, recFrame>>

\* if rand.Float64() < 0.1 { Lock(); append(RequestDurations, duration); Unlock() }
RecLatency(r) ==
    /\ rpc[r] = "latency"
    /\ IF rcall[r].latency
       THEN /\ mutex = "free"
            /\ RequestDurations' = Append(RequestDurations, 1)
       ELSE UNCHANGED RequestDurations
    /\ rpc' = [rpc EXCEPT ![r] = "idle"]
    /\ rcall' = [rcall EXCEPT ![r] = NoCall]
    /\ UNCHANGED <<counterVars, ErrorSamples, mutex, rStarted, recFrame>>

\* ------------------------------- stress_testing RunFixedRequestCountTest
fixedFrame == <<cfg, execVars, statVars, recVars, mainVars, sigSent, Tasks, genVars, adjVars,
                recentVars, lastSamplingTime, RequestDurations, mutex, workerVars, repPc,
                calcVars, snap, nextReport, admitted, offer, started>>

\* a panic (integer divide by zero) ends the process
FixedAlive == fixedPc # "panic"

\* tasks := make(chan struct{}, numWorkers*2)

\* the goroutine started by main: <-sigChan; close(saleor.StopChan); ...
FixedSignal ==
    /\ FixedAlive
    /\ ~StopChan
    /\ StopChan' = TRUE
    /\ UNCHANGED <<totalRequests, targetRPS, fixedPc, fixedI, tasks, tasksShut, fixedW,
                   submitted, lateSubmits, counterVars, fixedFrame>>

\* the worker goroutines are launched; interval := time.Second / time.Duration(targetRPS)
FixedStart ==
    /\ fixedPc = "start"
    /\ fixedW' = [w \in DOMAIN fixedW |-> "range"]
    /\ fixedPc' = IF targetRPS = 0 THEN "panic" ELSE "check"
    /\ UNCHANGED <<totalRequests, targetRPS, fixedI, tasks, tasksShut, StopChan,
                   submitted, lateSubmits, counterVars, fixedFrame>>

\* for i := 0; i < totalRequests; i++ { select { case <-p.StopChan: close(tasks);
\* workerWg.Wait(); return; default: } ... }, up to the rate-limiting sleep;
\* after the loop: close(tasks)
FixedCheck ==
    /\ fixedPc = "check"
    /\ IF fixedI < totalRequests /\ ~StopChan
       THEN fixedPc' = "send" /\ UNCHANGED tasksShut
       ELSE fixedPc' = "wait" /\ tasksShut' = TRUE
    /\ UNCHANGED <<totalRequests, targetRPS, fixedI, tasks, StopChan, fixedW,
                   submitted, lateSubmits, counterVars, fixedFrame>>

\* tasks <- struct{}{}: a blocking send, then i++
FixedSend ==
    /\ fixedPc = "send"
    /\ tasks < 2 * Len(fixedW)
    /\ tasks' = tasks + 1
    /\ fixedI' = fixedI + 1
    /\ submitted' = submitted + 1
    /\ lateSubmits' = lateSubmits + (IF StopChan THEN 1 ELSE 0)
    /\ fixedPc' = "check"
    /\ UNCHANGED <<totalRequests, targetRPS, tasksShut, StopChan, fixedW, counterVars, fixedFrame>>

FixedWorkersDone_NoWait == TRUE

\* workerWg.Wait() returns once every worker goroutine has called Done
FixedWorkersDone == \A w \in DOMAIN fixedW : fixedW[w] = "exited"

FixedReturn ==
    /\ fixedPc = "wait"
    /\ FixedWorkersDone
    /\ fixedPc' = "returned"
    /\ UNCHANGED <<totalRequests, targetRPS, fixedI, tasks, tasksShut, StopChan, fixedW,
                   submitted, lateSubmits, counterVars, fixedFrame>>

\* for range tasks: an item is received
FixedWorkerTake(w) ==
    /\ FixedAlive
    /\ fixedW[w] = "range"
    /\ tasks > 0
    /\ tasks' = tasks - 1
    /\ fixedW' = [fixedW EXCEPT ![w] = "exec"]
    /\ UNCHANGED <<totalRequests, targetRPS, fixedPc, fixedI, tasksShut, StopChan,
                   submitted, lateSubmits, counterVars, fixedFrame>>

\* for range tasks: the channel is closed and drained
FixedWorkerExit(w) ==
    /\ FixedAlive
    /\ fixedW[w] = "range"
    /\ tasks = 0 /\ tasksShut
    /\ fixedW' = [fixedW EXCEPT ![w] = "exited"]
    /\ UNCHANGED <<totalRequests, targetRPS, fixedPc, fixedI, tasks, tasksShut, StopChan,
                   submitted, lateSubmits, counterVars, fixedFrame>>

\* p.ExecuteRequest() up to AddResult: atomic.AddInt64(&m.TotalRequests, 1);
\* every path of ExecuteRequest ends in one AddResult
FixedWorkerExecute(w, ok) ==
    /\ FixedAlive
    /\ fixedW[w] = "exec"
    /\ TotalRequests' = TotalRequests + 1
    /\ fixedW' = [fixedW EXCEPT ![w] = IF ok THEN "addSuccess" ELSE "addFailed"]
    /\ UNCHANGED <<totalRequests, targetRPS, fixedPc, fixedI, tasks, tasksShut, StopChan,
                   submitted, lateSubmits, SuccessfulRequests, FailedRequests, fixedFrame>>

\* AddResult: atomic.AddInt64 on SuccessfulRequests or FailedRequests
FixedWorkerAddOutcome(w) ==
    /\ FixedAlive
    /\ fixedW[w] \in {"addSuccess", "addFailed"}
    /\ IF fixedW[w] = "addSuccess"
       THEN SuccessfulRequests' = SuccessfulRequests + 1 /\ UNCHANGED FailedRequests
       ELSE FailedRequests' = FailedRequests + 1 /\ UNCHANGED SuccessfulRequests
    /\ fixedW' = [fixedW EXCEPT ![w] = "range"]
    /\ UNCHANGED <<totalRequests, targetRPS, fixedPc, fixedI, tasks, tasksShut, StopChan,
                   submitted, lateSubmits, TotalRequests, fixedFrame>>

FixedWorker(w) ==
    \/ FixedWorkerTake(w)
    \/ FixedWorkerExit(w)
    \/ \E ok \in BOOLEAN : FixedWorkerExecute(w, ok)
    \/ FixedWorkerAddOutcome(w)

\* ------------------------------------------------------- report statistics
\* partitionDurations: the for loop over j, then the final swap; the result
\* is the partitioned slice and the pivot's index.
Swap(d, i, j) == [d EXCEPT ![i] = d[j], ![j] = d[i]]

RECURSIVE PartitionLoop(_, _, _, _, _)
PartitionLoop(d, high, pivot, i, j) ==
    IF j >= high THEN [d |-> Swap(d, i + 1, high), pivot |-> i + 1]
    ELSE IF d[j] <= pivot
         THEN PartitionLoop(Swap(d, i + 1, j), high, pivot, i + 1, j + 1)
         ELSE PartitionLoop(d, high, pivot, i, j + 1)

PartitionDurations(d, low, high) == PartitionLoop(d, high, d[high], low - 1, low)

RECURSIVE QuickSortDurations(_, _, _)
QuickSortDurations(d, low, high) ==
    IF low < high
    THEN LET part == PartitionDurations(d, low, high)
             left == QuickSortDurations(part.d, low, part.pivot - 1)
         IN  QuickSortDurations(left, part.pivot + 1, high)
    ELSE d

SortDurations_Unsorted(d) == d

\* sortDurations(durations): in place, on the slice it is given
SortDurations(d) == IF Len(d) <= 1 THEN d ELSE QuickSortDurations(d, 1, Len(d))

PercentileDuration_CeilRank(sorted, pct) ==
    IF Len(sorted) = 0 THEN 0
    ELSE LET index == (pct * Len(sorted) + 99) \div 100 - 1
         IN  sorted[(IF index >= Len(sorted) THEN Len(sorted) - 1 ELSE index) + 1]

\* percentileDuration(sorted, percentile): index := int(math.Floor(percentile * len)),
\* capped at len - 1; percentile given in percent, indices from 1.
PercentileDuration(sorted, pct) ==
    IF Len(sorted) = 0 THEN 0
    ELSE LET index == (pct * Len(sorted)) \div 100
         IN  sorted[(IF index >= Len(sorted) THEN Len(sorted) - 1 ELSE index) + 1]

\* float64(m.SuccessfulRequests) / float64(max(m.TotalRequests, 1)) * 100,
\* in whole percent
SuccessRate(success, total) == (success * 100) \div (IF total > 1 THEN total ELSE 1)

SnapshotBuffer_InPlace(buf) == SortDurations(buf)

\* CalculateStats sorts a copy: m.RequestDurations after the call
SnapshotBuffer(buf) == buf

\* the values CalculateStats returns
ComputeStats(total, success, failed, buf) ==
    LET durations == SortDurations(buf)
        has == Len(buf) > 0
    IN  [valid |-> TRUE, total |-> total, success |-> success, failed |-> failed,
         successRate |-> SuccessRate(success, total),
         p50 |-> IF has THEN PercentileDuration(durations, 50) ELSE 0,
         p90 |-> IF has THEN PercentileDuration(durations, 90) ELSE 0,
         p95 |-> IF has THEN PercentileDuration(durations, 95) ELSE 0,
         p99 |-> IF has THEN PercentileDuration(durations, 99) ELSE 0]

statFrame == <<cfg, fixedVars, execVars, recVars, mainVars, sigSent, Tasks, genVars, adjVars, recentVars,
               lastSamplingTime, mutex, workerVars, repPc, calcVars, snap, nextReport,
               admitted, offer, started>>

\* Metrics.CalculateStats, run to its return with no concurrent record call
StatSnapshot ==
    /\ stats' = ComputeStats(TotalRequests, SuccessfulRequests, FailedRequests, RequestDurations)
    /\ RequestDurations' = SnapshotBuffer(RequestDurations)
    /\ fresh' = TRUE
    /\ UNCHANGED <<counterVars, statFrame>>

\* Metrics.AddResult, run to its return; smp is the sampling draw
StatRecord(ok, d, smp) ==
    /\ Len(RequestDurations) < MaxBuf
    /\ TotalRequests < MaxBuf
    /\ TotalRequests' = TotalRequests + 1
    /\ SuccessfulRequests' = SuccessfulRequests + (IF ok THEN 1 ELSE 0)
    /\ FailedRequests' = FailedRequests + (IF ok THEN 0 ELSE 1)
    /\ RequestDurations' = IF smp THEN Append(RequestDurations, d) ELSE RequestDurations
    /\ fresh' = FALSE
    /\ UNCHANGED <<stats, statFrame>>

\* ------------------------------------------------------------ specifications
MainStep ==
    \/ MainStart
    \/ MainSignal
    \/ MainGenStop
    \/ MainGenWait
    \/ MainCloseTasks
    \/ MainPoolStop
    \/ MainPoolWait

GenStep ==
    \/ GenInit
    \/ \E d \in 1..MaxGap : GenTick(d)
    \/ GenAdjust
    \/ GenResetSuccess
    \/ GenResetFailed
    \/ GenAdmit

Next ==
    \/ EnvSignal
    \/ MainStep
    \/ GenStep
    \/ GenStop
    \/ \E w \in DOMAIN wpc : Worker(w)
    \/ \E who \in Callers : CalculateStats(who)
    \/ ReporterStop

\* Configurations of the lifecycle specification: an adaptive run bounded by
\* Duration, a two-stage run (a long stage, then a shorter one) with two
\* workers, and a staged run on an unbuffered queue.  Reports every second.
Adaptive1 == AdaptiveConfig(1, 50, 100, 50, 1, 2, 1, 1)
CoreConfigs ==
    { Config(1, 1, 1, <<>>, TRUE, Adaptive1, 3),
      Config(2, 1, 1, <<Stage(2, 2), Stage(1, 0)>>, FALSE, NoAdaptive, 0),
      Config(1, 0, 1, <<Stage(4, 1)>>, FALSE, NoAdaptive, 0) }

Init == \E c \in CoreConfigs : InitWith(c)

Spec == Init /\ [][Next]_vars

\* Scheduling assumptions: every goroutine that can take a step eventually
\* takes one (the Go scheduler; an HTTP call ends at the latest with the
\* client's 5 s timeout; the ticker keeps firing up to the time horizon).
\* Weak fairness is enough: signals and reportTicker ticks are not forced.
WorkerIds == 1..2
WorkerStep(w) == w \in DOMAIN wpc /\ Worker(w)
ReporterCalc ==
    \/ CalcReadTotal("reporter")
    \/ CalcReadSuccess("reporter")
    \/ CalcReadFailed("reporter")

Fairness ==
    /\ WF_vars(MainStep)
    /\ WF_vars(GenStep)
    /\ WF_vars(GenStop)
    /\ \A w \in WorkerIds : WF_vars(WorkerStep(w))
    /\ WF_vars(CalculateStats("main"))
    /\ WF_vars(ReporterCalc)

\* The boundary scenario: one stage of one second with targetRate 0.
ZeroStage == <<Stage(TicksPerSecond, 0)>>

\* Lifecycle runs under fair scheduling: a short adaptive run, a staged run
\* with two workers whose generation loop ends on its own, and a stage that
\* outlasts the time horizon, so that its generation loop ends only when
\* stopped.
FairConfigs ==
    { Config(1, 1, 9, <<>>, TRUE, Adaptive1, 2),
      Config(2, 1, 1, <<Stage(2, 1)>>, FALSE, NoAdaptive, 0),
      Config(1, 1, 9, <<Stage(16, 1)>>, FALSE, NoAdaptive, 0),
      Config(1, 1, 9, ZeroStage, FALSE, NoAdaptive, 0) }

InitFair == \E c \in FairConfigs : InitWith(c)

FairSpec == InitFair /\ [][Next]_vars /\ Fairness

\* Adaptive runs: initial rates inside and outside [MinimumRPS, MaximumRPS],
\* sampling windows shorter and longer than the stabilization window.
AdaptiveConfigs ==
    { Config(1, 1, 9, <<>>, TRUE, AdaptiveConfig(1, 50, 100, 50, 1, 2, 1, 2), 5),
      Config(1, 1, 9, <<>>, TRUE, AdaptiveConfig(2, 0, 50, 50, 0, 3, 1, 3), 4),
      Config(1, 1, 9, <<>>, TRUE, AdaptiveConfig(2, 50, 100, 100, 1, 2, 2, 1), 5),
      Config(1, 1, 9, <<>>, TRUE, AdaptiveConfig(3, 50, 50, 50, 0, 2, 1, 1), 3),
      Config(1, 1, 9, <<>>, TRUE, AdaptiveConfig(0, 50, 50, 50, 1, 2, 1, 1), 3),
      Config(1, 1, 1, <<>>, TRUE, Adaptive1, 3) }

SpecAdaptive == (\E c \in AdaptiveConfigs : InitWith(c)) /\ [][Next]_vars

\* One worker of each executor variant executing MaxRequests descriptors,
\* for every outcome the transport can produce.
NextExec == ExecTake \/ ExecRun

InitExec == \E v \in Variants : InitVariant(Config(1, 1, 1, <<>>, FALSE, NoAdaptive, 0), v)

SpecExec == InitExec /\ [][NextExec]_vars

\* Configurations that select both scheduling modes, or neither.
Ambiguous(c) == c.AdaptiveRPS <=> Len(c.RampupStages) > 0

ModeConfigs ==
    { Config(1, 1, 1, <<Stage(2, 2)>>, TRUE, Adaptive1, 3),
      Config(1, 1, 9, <<>>, FALSE, NoAdaptive, 0) }

SpecModes == (\E c \in ModeConfigs : InitWith(c)) /\ [][Next]_vars

\* The recorder after any short history of record calls, or holding one of
\* a family of long sample buffers, with snapshots and further record calls.
LatencyValues == 1..3

LongBuffers == {[i \in 1..LongLen |-> (i * k) % (LongLen + 1)] : k \in 1..LongLen}

NextStats ==
    \/ StatSnapshot
    \/ \E ok \in BOOLEAN, d \in LatencyValues, smp \in BOOLEAN : StatRecord(ok, d, smp)

StatsConfig == Config(1, 1, 1, <<>>, FALSE, NoAdaptive, 0)

InitStats ==
    /\ InitRest(StatsConfig, "medusa")
    /\ \/ InitMetrics(0, 0, 0, <<>>, <<>>)
       \/ \E buf \in LongBuffers : InitMetrics(LongLen, LongLen, 0, buf, <<>>)

SpecStats == InitStats /\ [][NextStats]_vars

\* Two workers recording concurrently into a recorder that is fresh or
\* already holds nearly ErrorSampleCap failure samples.
RecordCalls ==
    {RecordCall(st, e, l) : st \in {0, 200, 500}, e \in BOOLEAN, l \in BOOLEAN}

NextRecord ==
    \E r \in Recorders :
        \/ \E call \in RecordCalls : RecBegin(r, call)
        \/ RecCounts(r)
        \/ RecOutcome(r)
        \/ RecSample(r)
        \/ RecLatency(r)

InitRecord ==
    /\ InitRest(StatsConfig, "saleor")
    /\ \E n \in {0} \cup ((ErrorSampleCap - MaxRequests)..ErrorSampleCap) :
          InitMetrics(n, 0, n, <<>>, [i \in 1..n |-> 500])

SpecRecord == InitRecord /\ [][NextRecord]_vars

\* The adaptive scenario of the specification: initialRate 10, error
\* threshold 2%, increase 25%, decrease 15%, for several rate bounds; one
\* sampling window and one adjustment fit into the run.
Scenario(min, max) == AdaptiveConfig(10, 2, 25, 15, min, max, 2, 2)

ScenarioConfigs ==
    { Config(1, 1, 1, <<>>, TRUE, Scenario(1, 20), 3),
      Config(1, 1, 9, <<>>, TRUE, Scenario(10, 12), 3),
      Config(1, 1, 9, <<>>, TRUE, Scenario(9, 13), 3) }

SpecScenario == (\E c \in ScenarioConfigs : InitWith(c)) /\ [][Next]_vars

\* Long adaptive runs (Duration 0) in which every sampling window shows the
\* same trend: an error rate above the threshold in every window, or at or
\* below it in every window.  The ticker keeps firing, so another window
\* always follows.
TrendConfigs ==
    {Config(1, 1, 9, <<>>, TRUE, AdaptiveConfig(10, 2, 25, 15, 5, 500, 2, 2), 0)}
    \cup
    {Config(1, 1, 9, <<>>, TRUE, AdaptiveConfig(init, 2, inc, dec, min, MaxRate, 2, 2), 0) :
        init \in 1..MaxRate, min \in {0, 1}, inc \in {25, 100}, dec \in {15, 100}}

WindowAbove ==
    \E rs \in 0..2, rf \in 0..2 :
        /\ ErrorRateExceeds(rs, rf, cfg.AdaptiveConfig.ErrorThresholdPercentage)
        /\ AdaptiveWindow(rs, rf)

WindowAtOrBelow ==
    \E rs \in 0..2, rf \in 0..2 :
        /\ ~ErrorRateExceeds(rs, rf, cfg.AdaptiveConfig.ErrorThresholdPercentage)
        /\ AdaptiveWindow(rs, rf)

NextDecline == MainStart \/ GenInit \/ WindowAbove

SpecDecline == (\E c \in TrendConfigs : InitWith(c)) /\ [][NextDecline]_vars /\ WF_vars(NextDecline)

NextClimb == MainStart \/ GenInit \/ WindowAtOrBelow

SpecClimb == (\E c \in TrendConfigs : InitWith(c)) /\ [][NextClimb]_vars /\ WF_vars(NextClimb)

\* stress_testing: RunFixedRequestCountTest for a few worker counts, request
\* totals (main passes RPS * DurationSeconds) and rates, with the interrupt
\* arriving at any moment or never.
NextFixed ==
    \/ FixedSignal
    \/ FixedStart
    \/ FixedCheck
    \/ FixedSend
    \/ FixedReturn
    \/ \E w \in DOMAIN fixedW : FixedWorker(w)

InitFixedTest ==
    /\ InitCore(StatsConfig, "stress")
    /\ InitMetrics(0, 0, 0, <<>>, <<>>)
    /\ \E nw \in 1..MaxFixedWorkers, total \in 0..MaxTotal, rps \in 0..1 : InitFixed(nw, total, rps)

SpecFixed == InitFixedTest /\ [][NextFixed]_vars

\* Adaptive runs with the default rates and several whole thresholds, in
\* which the workers complete one window of requests (rs successes and rf
\* failures, none of them drawing a latency sample) before the generation
\* loop evaluates it.
DirectionConfigs ==
    {Config(1, 1, 9, <<>>, TRUE, AdaptiveConfig(10, thr, 25, 15, 5, 500, 2, 2), 0) :
        thr \in {2, 28, 50, 55}}

WindowFill(rs, rf) ==
    /\ Alive
    /\ cfg.AdaptiveRPS
    /\ genPc = "wait"
    /\ TotalRequests = 0
    /\ TotalRequests' = rs + rf
    /\ SuccessfulRequests' = rs
    /\ FailedRequests' = rf
    /\ recentSuccessfulRequests' = rs
    /\ recentFailedRequests' = rf
    /\ UNCHANGED <<cfg, fixedVars, execVars, statVars, recVars, mainVars, sigSent, Tasks, genVars, adjVars,
                   lastSamplingTime, RequestDurations, mutex, workerVars, repPc, calcVars,
                   snap, nextReport, admitted, offer, started>>

NextDirection ==
    \/ MainStart
    \/ \E rs \in 0..MaxWindow, rf \in 0..MaxWindow :
          /\ rs + rf \in {1, 2, 3, 20, MaxWindow}
          /\ WindowFill(rs, rf)
    \/ GenStep

SpecDirection == (\E c \in DirectionConfigs : InitWith(c)) /\ [][NextDirection]_vars

\* the first rate adjustment of a run
FirstAdjustment ==
    /\ genPc = "loadFailed" /\ genPc' = "resetSuccess"
    /\ nAdjust = 0 /\ nAdjust' = 1

\* ------------------------------------------------------------------ claims
\* C1: whenever the generation loop has ended on its own and no stop signal
\* is ever delivered, the run still eventually reaches Stopped and emits the
\* final snapshot.
C1_RunTerminates ==
    (genPc = "done" /\ ~gStop) ~> (sigSent > 0 \/ (Lifecycle = "Stopped" /\ snap.kind = "final"))

\* C2: the final snapshot's total equals the number of descriptors that were
\* enqueued into the admission queue during the run.
C2_FinalCountsEveryAdmitted == snap.kind = "final" => snap.total = admitted

\* C3: once WorkerPool.StopChan is closed no worker dequeues another
\* descriptor.
C3_NoStartAfterStop == [][pStop => started' = started]_vars

\* C4: when WorkerPool.Stop has returned, every worker has exited and every
\* request that was dequeued, in particular those in flight when the stop
\* was signalled, has been recorded.
C4_StopWaitsForInFlight ==
    mainPc \in {"final", "reported"} =>
        /\ AllWorkersExited
        /\ TotalRequests = started
        /\ SuccessfulRequests + FailedRequests = started

C4_Witness == mainPc = "final" /\ inflightAtStop > 0 /\ TotalRequests > 0

\* C5: after Stopped is reached no worker records again: the lifetime and
\* window counters and the sample buffer never change.
C5_NoRecordAfterStopped ==
    [][Lifecycle = "Stopped" => UNCHANGED <<counterVars, recentVars, RequestDurations>>]_vars

C5_Witness == mainPc = "reported" /\ TotalRequests >= 1 /\ cfg.MaxWorkers > 1

\* C6: one stop signal is enough: once it is delivered, the shutdown
\* sequence runs to completion and the final snapshot is emitted.
C6_SignalStopsRun == (sigChan = 1) ~> (mainPc = "reported")

C6_Witness == mainPc = "reported" /\ sigSent = 1 /\ inflightAtStop > 0 /\ Len(Tasks) > 0

\* C7: every snapshot, periodic or final, reports total = success + failure.
C7_Conservation == snap.kind # "none" => snap.total = snap.success + snap.failed

\* C8: in adaptive mode the target rate is within [MinimumRPS, MaximumRPS]
\* from the start of the generation loop onward.
C8_RateClamped ==
    (cfg.AdaptiveRPS /\ genPc \notin {"notStarted", "init"}) =>
        /\ cfg.AdaptiveConfig.MinimumRPS <= currentTargetRPS
        /\ currentTargetRPS <= cfg.AdaptiveConfig.MaximumRPS

\* C9: any two consecutive rate adjustments, and the start of the generation
\* loop and the first adjustment, are at least StabilizationWindow apart.
C9_Hysteresis ==
    nAdjust >= 1 => adjLast - adjPrev >= cfg.AdaptiveConfig.StabilizationWindow

C9_Witness == nAdjust >= 2 /\ cfg.AdaptiveConfig.StabilizationWindow >= 2

\* C10: in staged mode the target rate at every tick lies between the
\* current stage's starting rate and its TargetRPS.
C10_RateWithinStage ==
    (~cfg.AdaptiveRPS /\ genPc = "wait" /\ currentStage < Len(cfg.RampupStages)) =>
        LET t == cfg.RampupStages[currentStage + 1].TargetRPS
        IN  \/ startRPS <= currentTargetRPS /\ currentTargetRPS <= t
            \/ t <= currentTargetRPS /\ currentTargetRPS <= startRPS

\* C11: in staged mode the tick that begins a stage keeps the rate that was
\* in force when the stage began (interpolation at elapsed = 0), and the
\* stage starts from exactly the targetRate of the stage that just ended.
C11_StageBoundary ==
    [][(/\ ~cfg.AdaptiveRPS
        /\ currentStage' = currentStage + 1
        /\ currentStage' < Len(cfg.RampupStages))
       => /\ currentTargetRPS' = currentTargetRPS
          /\ startRPS' = cfg.RampupStages[currentStage + 1].TargetRPS]_vars

\* C12: the target rate is never negative, neither the value used for
\* admission nor the value published as CurrentRate.
C12_RateNonNegative == currentTargetRPS >= 0 /\ CurrentRate >= 0

\* C13: the offer to the task queue never blocks the generation loop: with a
\* full queue the offer is dropped at once, the loop is back at its select
\* (able to take the next tick or the stop request), and the dropped request
\* leaves no queue entry and no outcome record.
C13_OfferNeverBlocks ==
    /\ [](Alive /\ genPc = "admit" => ENABLED GenAdmit)
    /\ [](Alive /\ genPc = "wait" /\ clock < MaxTime => ENABLED GenTick(1))
    /\ [](Alive /\ genPc = "wait" /\ gStop => ENABLED GenStop)
    /\ [][(/\ offer' = "shed" /\ genPc' = "wait"
           /\ (GenAdmit \/ \E d \in 1..MaxGap : GenTick(d)))
          => UNCHANGED <<Tasks, admitted, started, workerVars, counterVars, recentVars,
                         RequestDurations>>]_vars

C13_Witness ==
    /\ offer = "shed" /\ genPc = "wait"
    /\ cfg.MaxQueueSize > 0 /\ Len(Tasks) = cfg.MaxQueueSize

\* C14 (as stated): with queue capacity 0 no request is ever admitted or
\* executed.
C14_CapacityZeroShedsAll ==
    cfg.MaxQueueSize = 0 => admitted = 0 /\ started = 0 /\ TotalRequests = 0

\* C14 (amended): with queue capacity 0 nothing is ever buffered; a request
\* is admitted only by direct hand-off to a worker waiting in its select, so
\* every admitted request is at once in execution; the target rate keeps its
\* configured value and the generation loop is never stuck.
C14_CapacityZeroHandsOff ==
    cfg.MaxQueueSize = 0
    => /\ Tasks = <<>>
       /\ admitted = started
       /\ (genPc = "wait" /\ Len(cfg.RampupStages) = 1
           => currentTargetRPS = cfg.RampupStages[1].TargetRPS)
       /\ (Alive /\ genPc = "wait" /\ clock < MaxTime => ENABLED GenTick(1))

C14_Witness == cfg.MaxQueueSize = 0 /\ admitted > 0 /\ offer = "shed"

\* C15: with the single stage {1 s, targetRate 0} no request is ever
\* admitted, the generation loop starts and ends when the stage has elapsed,
\* and the run reaches Stopped without any external signal.
C15_ZeroRateRunEnds ==
    (cfg.RampupStages = ZeroStage /\ ~cfg.AdaptiveRPS)
    => /\ [](admitted = 0)
       /\ <>(genPc = "done")
       /\ <>(sigSent > 0 \/ Lifecycle = "Stopped")

\* C16: within one admission window the number admitted never exceeds the
\* target rate in force at the admission, and the per-second counter is
\* reset exactly once per elapsed second: never twice within one second and
\* never left standing once a second has elapsed.
C16_PerSecondBudget ==
    [][/\ (admitted' = admitted + 1
           => /\ requestsThisSecond' <= currentTargetRPS'
              /\ requestsThisSecond' =
                   (IF SecondElapsed(now') THEN 0 ELSE requestsThisSecond) + 1)
       /\ (secondStart' # secondStart
           => /\ secondStart' = now'
              /\ secondStart' - secondStart >= TicksPerSecond
              /\ requestsThisSecond' <= 1)
       /\ (genPc \in {"wait", "admit"} /\ genPc' = "wait" /\ (genPc = "admit" \/ clock' # clock)
           => /\ now' - secondStart' < TicksPerSecond
              /\ (secondStart' = secondStart
                  => requestsThisSecond' \in {requestsThisSecond, requestsThisSecond + 1}))]_vars

C16_Witness ==
    /\ currentTargetRPS > 0 /\ requestsThisSecond = currentTargetRPS
    /\ secondStart > 0 /\ admitted > requestsThisSecond

\* C17: every response that carries an application-level error inside an
\* HTTP 2xx response, and every non-2xx response, is counted as failed,
\* for every value of LogErrors and of the error-sampling draw.
C17_AppErrorCountsAsFailure ==
    (/\ xpc = "take" /\ xDone > 0
     /\ xIn.fault = "none"
     /\ (xIn.appError \/ xIn.status < 200 \/ xIn.status >= 300))
    => \A i \in DOMAIN xCalls : ~xCalls[i].success

\* C18: an outcome is counted as a success if and only if a response was
\* obtained and its status is in 200..299, in every executor variant
\* (outcomes without an application-level or body error).
C18_SuccessIff2xx ==
    (/\ xpc = "take" /\ xDone > 0
     /\ xIn.fault \in PreResponse \cup {"none"} /\ ~xIn.appError)
    => \A i \in DOMAIN xCalls :
         xCalls[i].success
         <=> (xIn.fault = "none" /\ xIn.status >= 200 /\ xIn.status <= 299)

\* C19: every dequeued request produces exactly one record call on every
\* execution path; a request that fails before any response is recorded as
\* failed, with statusCode 0 where the recorder takes a status; the worker
\* then goes on to take the next descriptor.
C19_ExactlyOneRecord ==
    /\ TotalRequests = xDone
    /\ SuccessfulRequests + FailedRequests = xDone
    /\ (xpc = "take" /\ xDone > 0
        => /\ Len(xCalls) = 1
           /\ (xIn.fault \in PreResponse
               => /\ ~xCalls[1].success
                  /\ (xVariant \in {"saleor", "spree"} => xCalls[1].statusCode = 0)))
    /\ (xpc = "take" /\ xDone < MaxRequests => ENABLED ExecTake)

C19_Witness ==
    /\ xVariant = "saleor" /\ xpc = "take" /\ xDone = MaxRequests
    /\ xIn.fault = "do" /\ FailedRequests = MaxRequests

\* C20 (as stated): when the configuration selects both scheduling modes or
\* neither, no worker is launched and no request is ever admitted.
C20_AmbiguousModeFailsFast ==
    Ambiguous(cfg) => (\A w \in DOMAIN wpc : wpc[w] = "notStarted") /\ admitted = 0

\* C20 (amended): when both modes are selected the adaptive mode takes
\* precedence: the run starts at InitialRPS and the stage list is never
\* consulted; when neither is selected the run starts with target rate 0
\* and never admits a request.
C20_AdaptiveTakesPrecedence ==
    Ambiguous(cfg)
    => /\ (cfg.AdaptiveRPS
           => /\ currentStage = 0 /\ stageStart = testStart
              /\ (genPc \notin {"notStarted", "init"} /\ nAdjust = 0
                  => currentTargetRPS = cfg.AdaptiveConfig.InitialRPS))
       /\ (~cfg.AdaptiveRPS
           => admitted = 0 /\ currentTargetRPS = 0 /\ CurrentRate = 0)

C20_Witness ==
    /\ Ambiguous(cfg) /\ cfg.AdaptiveRPS
    /\ nAdjust > 0 /\ admitted > 0 /\ TotalRequests > 0

\* C21: a snapshot taken when no request has been recorded (total = 0)
\* reports a success rate of 100%.
C21_EmptySuccessRate == (stats.valid /\ stats.total = 0) => stats.successRate = 100

\* C22: the lifetime counters never decrease; a record call increases total
\* by exactly 1 and exactly one of success and failure by exactly 1, and no
\* update is lost under any interleaving of concurrent record calls.
C22_MonotonicCounters ==
    /\ [](TotalRequests = SuccessfulRequests + FailedRequests
                          + Cardinality({r \in Recorders : rpc[r] \in {"counts", "outcome"}}))
    /\ [][/\ TotalRequests' >= TotalRequests
          /\ SuccessfulRequests' >= SuccessfulRequests
          /\ FailedRequests' >= FailedRequests
          /\ \A r \in Recorders :
               /\ (rpc[r] = "idle" /\ rpc'[r] = "counts"
                   => TotalRequests' = TotalRequests + 1)
               /\ (rpc[r] = "outcome" /\ rpc'[r] # "outcome"
                   => \/ /\ SuccessfulRequests' = SuccessfulRequests + 1
                         /\ FailedRequests' = FailedRequests
                      \/ /\ SuccessfulRequests' = SuccessfulRequests
                         /\ FailedRequests' = FailedRequests + 1)]_vars

C22_Witness ==
    /\ \A r \in Recorders : rpc[r] = "outcome"
    /\ TotalRequests = SuccessfulRequests + FailedRequests + 2

\* C23: two snapshot computations with no record call in between return
\* identical counts, success rate and percentiles, and a snapshot leaves the
\* counters and the sample buffer (contents and order) unchanged.
C23_IdempotentSnapshot ==
    [][stats'.valid /\ fresh'
       => /\ UNCHANGED <<counterVars, RequestDurations, ErrorSamples>>
          /\ (fresh => stats' = stats)]_vars

C23_Witness ==
    /\ stats.valid /\ fresh /\ Len(RequestDurations) = MaxBuf
    /\ \E i \in 1..(MaxBuf - 1) : RequestDurations[i] > RequestDurations[i + 1]

\* C24: for every snapshot computed over a sample buffer with at least one
\* element, p50 <= p90 <= p95 <= p99, whatever the buffer holds and in
\* whatever order.
C24_PercentileOrdering ==
    (stats.valid /\ fresh /\ Len(RequestDurations) > 0)
    => /\ stats.p50 <= stats.p90 /\ stats.p90 <= stats.p95 /\ stats.p95 <= stats.p99
       /\ \A i \in 1..(Len(RequestDurations) - 1) :
            SortDurations(RequestDurations)[i] <= SortDurations(RequestDurations)[i + 1]

C24_Witness ==
    /\ stats.valid /\ fresh /\ Len(RequestDurations) = LongLen
    /\ RequestDurations[1] > RequestDurations[2]
    /\ stats.p50 < stats.p90 /\ stats.p90 < stats.p95 /\ stats.p95 < stats.p99

\* C25: with initialRate 10, threshold 2%, increase 25% and maxRate >= 12,
\* when every request of the window succeeded the target rate after one
\* adjustment is 12.
C25_IncreaseScenario ==
    [][(/\ FirstAdjustment
        /\ cfg.AdaptiveConfig.MaximumRPS >= 12
        /\ recentFailedRequests = 0)
       => currentTargetRPS' = 12]_vars

C25_Witness ==
    /\ nAdjust = 1 /\ currentTargetRPS = 12
    /\ SuccessfulRequests > 0 /\ FailedRequests = 0

\* C26 (as stated): with initialRate 10 and decrease 15%, when every request
\* of the window failed the target rate after one adjustment is 8.5, or
\* minRate if minRate > 8.5.
C26_DecreaseScenario ==
    [][(FirstAdjustment /\ recentSuccess = 0 /\ recentFailedRequests > 0)
       => \/ 2 * currentTargetRPS' = 17
          \/ /\ 2 * cfg.AdaptiveConfig.MinimumRPS > 17
             /\ currentTargetRPS' = cfg.AdaptiveConfig.MinimumRPS]_vars

\* C26 (amended): the decrease is truncated to a whole number of requests,
\* so the target rate after one adjustment is 10 - int(10 x 0.15) = 9, or
\* minRate if minRate > 9.
C26_DecreaseTruncated ==
    [][(FirstAdjustment /\ recentSuccess = 0 /\ recentFailedRequests > 0)
       => currentTargetRPS' = IF cfg.AdaptiveConfig.MinimumRPS > 9
                              THEN cfg.AdaptiveConfig.MinimumRPS ELSE 9]_vars

C26_Witness ==
    /\ nAdjust = 1 /\ currentTargetRPS = 9
    /\ SuccessfulRequests = 0 /\ FailedRequests > 0

\* C27: ResetRecentCounters zeroes the recent success and recent failure
\* counters and leaves the lifetime total, success and failure counters and
\* the latency sample buffer unchanged.
C27_ResetFrame ==
    [][/\ (genPc = "resetSuccess" /\ genPc' = "resetFailed"
           => /\ recentSuccessfulRequests' = 0
              /\ UNCHANGED <<counterVars, RequestDurations, recentFailedRequests>>)
       /\ (genPc = "resetFailed" /\ genPc' = "admit"
           => /\ recentFailedRequests' = 0
              /\ UNCHANGED <<counterVars, RequestDurations, recentSuccessfulRequests>>)]_vars

C27_Witness ==
    /\ genPc = "admit"
    /\ recentSuccessfulRequests = 0 /\ recentFailedRequests = 0
    /\ FailedRequests > 0 /\ Len(RequestDurations) > 0

\* C28: reads never block writers: in no reachable state is a worker blocked
\* in AddResult on the mutex while the periodic report's CalculateStats
\* holds it.
C28_ReadsNeverBlockWriters ==
    \A w \in 1..cfg.MaxWorkers : ~(wpc[w] = "lock" /\ mutex = "reporter")

\* C29: the adaptive state is read and written by the generation loop alone:
\* no other goroutine reads currentTargetRPS while generateLoad is running.
C29_AdaptiveStateOwned == targetReaders = {}

\* C30: the retained failure-sample list never holds more than 100 entries
\* under any interleaving of concurrent record calls, and whether a failure
\* sample is retained depends only on the error response and the room left,
\* never on whether the request's latency is sampled.
C30_ErrorSamplesCapped ==
    /\ [](Len(ErrorSamples) <= ErrorSampleCap)
    /\ [][\A r \in Recorders :
            /\ (/\ rpc[r] = "outcome" /\ rpc'[r] # "outcome"
                /\ rcall[r].errResp
                => rpc'[r] = "sample" /\ FailedRequests' = FailedRequests + 1)
            /\ (rpc[r] = "sample" /\ rpc'[r] # "sample"
                => Len(ErrorSamples') = IF Len(ErrorSamples) < ErrorSampleCap
                                        THEN Len(ErrorSamples) + 1 ELSE ErrorSampleCap)
            /\ (rpc[r] # "sample" => (rpc'[r] # rpc[r] => ErrorSamples' = ErrorSamples))]_vars

C30_Witness ==
    /\ rpc[1] = "latency" /\ rcall[1].errResp /\ ~rcall[1].latency
    /\ rpc[2] = "latency" /\ rcall[2].errResp /\ rcall[2].latency
    /\ Len(ErrorSamples) = ErrorSampleCap
    /\ FailedRequests = ErrorSampleCap + 1


\* C31: in adaptive mode a handled tick (one that does not end the run)
\* resets the window counters iff at least SamplingWindow has elapsed since
\* lastSamplingTime; the reset follows the evaluation whether or not the
\* stabilization guard let the rate change, and the window counters and
\* lastSamplingTime are reset nowhere else in the loop.
C31_WindowReset ==
    [][/\ (cfg.AdaptiveRPS /\ genPc = "wait" /\ clock' # clock /\ genPc' # "done"
           => (genPc' = "loadFailed"
               <=> now' - lastSamplingTime >= cfg.AdaptiveConfig.SamplingWindow))
       /\ (genPc = "loadFailed" /\ genPc' # genPc => genPc' = "resetSuccess")
       /\ (genPc = "resetSuccess" /\ genPc' # genPc
           => genPc' = "resetFailed" /\ recentSuccessfulRequests' = 0)
       /\ (genPc = "resetFailed" /\ genPc' # genPc
           => genPc' = "admit" /\ recentFailedRequests' = 0 /\ lastSamplingTime' = now)
       /\ (genPc \notin {"init", "resetSuccess"}
           => recentSuccessfulRequests' >= recentSuccessfulRequests)
       /\ (genPc \notin {"init", "resetFailed"}
           => /\ recentFailedRequests' >= recentFailedRequests
              /\ lastSamplingTime' = lastSamplingTime)]_vars

\* a reset on a tick where the stabilization guard suppressed the adjustment
C31_Witness ==
    /\ cfg.AdaptiveRPS /\ genPc = "admit"
    /\ lastSamplingTime = now
    /\ now - lastAdaptiveChange < cfg.AdaptiveConfig.StabilizationWindow
    /\ recentSuccessfulRequests = 0 /\ recentFailedRequests = 0
    /\ TotalRequests > 0

\* C33: for every non-empty sample buffer of length n the sort yields an
\* ascending permutation of the buffer (duplicates included), and each
\* reported percentile p is the element of rank k = min(floor(p * n), n - 1)
\* (counted from 0) in it: a buffer value v with at most k values below it
\* and more than k values at or below it.
C33_NearestRank ==
    (stats.valid /\ fresh /\ Len(RequestDurations) > 0)
    => LET buf == RequestDurations
           n == Len(buf)
           sorted == SortDurations(buf)
           Count(q, v) == Cardinality({i \in 1..n : q[i] = v})
           Below(v) == Cardinality({i \in 1..n : buf[i] < v})
           AtOrBelow(v) == Cardinality({i \in 1..n : buf[i] <= v})
           Rank(pct) == IF (pct * n) \div 100 > n - 1 THEN n - 1 ELSE (pct * n) \div 100
           IsRank(v, pct) == /\ \E i \in 1..n : buf[i] = v
                             /\ Below(v) <= Rank(pct) /\ Rank(pct) < AtOrBelow(v)
       IN  /\ Len(sorted) = n
           /\ \A i \in 1..n : Count(sorted, buf[i]) = Count(buf, buf[i])
           /\ \A i \in 1..(n - 1) : sorted[i] <= sorted[i + 1]
           /\ IsRank(stats.p50, 50) /\ IsRank(stats.p90, 90)
           /\ IsRank(stats.p95, 95) /\ IsRank(stats.p99, 99)

\* an unsorted buffer with a duplicate whose percentiles differ
C33_Witness ==
    /\ stats.valid /\ fresh /\ Len(RequestDurations) >= 3
    /\ \E i, j \in 1..Len(RequestDurations) : i < j /\ RequestDurations[i] > RequestDurations[j]
    /\ \E i, j \in 1..Len(RequestDurations) : i < j /\ RequestDurations[i] = RequestDurations[j]
    /\ stats.p50 < stats.p99

\* C36: in adaptive mode with RPSDecreasePercentage > 0 and
\* InitialRPS >= MinimumRPS >= 0, if every sampling window shows an error
\* rate above the threshold the target rate eventually reaches MinimumRPS.
C36_ReachesMinimum ==
    (/\ cfg.AdaptiveConfig.RPSDecreasePercentage > 0
     /\ cfg.AdaptiveConfig.MinimumRPS >= 0
     /\ cfg.AdaptiveConfig.InitialRPS >= cfg.AdaptiveConfig.MinimumRPS)
    => <>(genPc = "wait" /\ currentTargetRPS = cfg.AdaptiveConfig.MinimumRPS)

\* C37: in adaptive mode with RPSIncreasePercentage > 0 and a starting rate
\* >= 1, if every sampling window shows an error rate at or below the
\* threshold the target rate eventually reaches MaximumRPS.
C37_ReachesMaximum ==
    (/\ cfg.AdaptiveConfig.RPSIncreasePercentage > 0
     /\ cfg.AdaptiveConfig.InitialRPS >= 1)
    => <>(genPc = "wait" /\ currentTargetRPS = cfg.AdaptiveConfig.MaximumRPS)

\* C38: every outcome a worker has added to a window counter is counted in
\* exactly one window's error rate: between two window evaluations the
\* outcomes recorded so far are those already evaluated plus those held by
\* the two window counters.
C38_EveryOutcomeInOneWindow ==
    (cfg.AdaptiveRPS /\ genPc \in {"wait", "admit", "done"})
    => SuccessfulRequests + FailedRequests
         - Cardinality({w \in DOMAIN wpc : wpc[w] = "addRecent"})
       = evaluated + recentSuccessfulRequests + recentFailedRequests

\* C39: at every moment at most MaxWorkers requests are being executed and
\* at most MaxQueueSize descriptors wait in the queue; only the generation
\* loop enqueues and only workers dequeue; descriptors leave the queue in
\* the order they entered it, each at most once.
C39_BoundedConcurrency ==
    /\ [](/\ Cardinality({w \in DOMAIN wpc : Executing(w)}) <= cfg.MaxWorkers
          /\ Len(Tasks) <= cfg.MaxQueueSize
          /\ Tasks = [i \in 1..(admitted - started) |-> started + i]
          /\ \A w \in DOMAIN wpc : Executing(w) => wtask[w] \in 1..started
          /\ \A v, w \in DOMAIN wpc : Executing(v) /\ Executing(w) /\ v # w => wtask[v] # wtask[w])
    /\ [][/\ (admitted' # admitted
              => /\ admitted' = admitted + 1
                 /\ genPc \in {"wait", "admit"} /\ genPc' = "wait"
                 /\ now' = clock')
          /\ (started' # started
              => /\ started' = started + 1
                 /\ \E w \in DOMAIN wpc :
                      wpc[w] = "select" /\ wpc'[w] = "exec" /\ wtask'[w] = started')]_vars

\* the queue is full while every worker executes a request, and the
\* generation loop has just shed a further descriptor
C39_Witness ==
    /\ \A w \in DOMAIN wpc : Executing(w)
    /\ cfg.MaxQueueSize > 0 /\ Len(Tasks) = cfg.MaxQueueSize
    /\ offer = "shed"

\* C40: each timer tick makes at most one offer and admits at most one
\* request; the per-second counter grows by exactly 1 when and only when the
\* enqueue succeeds, so a shed offer leaves the budget untouched and a tick
\* that is under budget always offers, also right after a shed offer.
C40_ShedKeepsBudget ==
    [][/\ admitted' \in {admitted, admitted + 1}
       /\ (clock' # clock /\ genPc' = "loadFailed"
           => admitted' = admitted /\ requestsThisSecond' = requestsThisSecond)
       /\ (admitted' # admitted \/ requestsThisSecond' > requestsThisSecond
           => genPc \in {"wait", "admit"} /\ genPc' = "wait"
              /\ (genPc = "admit" \/ clock' # clock))
       /\ (genPc \in {"wait", "admit"} /\ genPc' = "wait" /\ (genPc = "admit" \/ clock' # clock)
           => LET base == IF secondStart' # secondStart THEN 0 ELSE requestsThisSecond
              IN  /\ (offer' = "sent" <=> admitted' = admitted + 1)
                  /\ requestsThisSecond' = base + (admitted' - admitted)
                  /\ (base < currentTargetRPS' <=> offer' \in {"sent", "shed"})
                  /\ (offer' = "shed" => Len(Tasks) >= cfg.MaxQueueSize))]_vars

\* a shed offer that left the tick's second under budget
C40_Witness ==
    /\ genPc = "wait" /\ offer = "shed"
    /\ requestsThisSecond < currentTargetRPS
    /\ admitted > 0 /\ Len(Tasks) = cfg.MaxQueueSize

\* C35: for every interleaving of the shutdown sequence with the generation
\* loop and the workers, the task queue is closed only after the generation
\* loop has exited, so no send is attempted on the closed queue, and each of
\* the three channels is closed at most once.
C35_NoSendOnClosedQueue ==
    /\ [](tasksClosed => genPc = "done")
    /\ [][/\ (genPc' # genPc \/ admitted' # admitted \/ offer' # offer => ~tasksClosed')
          /\ (gStop' # gStop => ~gStop /\ mainPc = "genStop")
          /\ (tasksClosed' # tasksClosed => ~tasksClosed /\ mainPc = "closeTasks")
          /\ (pStop' # pStop => ~pStop /\ mainPc = "poolStop")
          /\ (mainPc = "genStop" /\ mainPc' # mainPc => ~gStop /\ gStop')
          /\ (mainPc = "closeTasks" /\ mainPc' # mainPc => ~tasksClosed /\ tasksClosed')
          /\ (mainPc = "poolStop" /\ mainPc' # mainPc => ~pStop /\ pStop')]_vars

\* a completed shutdown of a run whose generation loop ended on its own, by
\* its duration check, with requests admitted before
C35_Witness ==
    /\ mainPc = "reported" /\ tasksClosed /\ gStop /\ pStop
    /\ cfg.Duration > 0 /\ now - testStart >= cfg.Duration
    /\ admitted > 0

\* C34: RunFixedRequestCountTest returns only after every task it submitted
\* has been executed and recorded; when it was not stopped it has submitted
\* exactly totalRequests tasks, so the recorded total equals totalRequests;
\* once it has seen the stop signal it submits no further task (at most the
\* one send already under way when StopChan is closed still happens).
C34_FixedCountComplete ==
    /\ [](fixedPc = "returned"
          => /\ TotalRequests = submitted
             /\ SuccessfulRequests + FailedRequests = TotalRequests
             /\ tasks = 0 /\ \A w \in DOMAIN fixedW : fixedW[w] = "exited"
             /\ submitted <= totalRequests
             /\ (submitted < totalRequests => StopChan)
             /\ (~StopChan => TotalRequests = totalRequests))
    /\ [](lateSubmits <= 1)
    /\ [][submitted' # submitted
            => submitted' = submitted + 1 /\ fixedPc = "send" /\ ~tasksShut]_vars
    /\ [][tasksShut => tasksShut' /\ submitted' = submitted]_vars

\* stopped early: fewer than totalRequests were submitted, some were, and
\* all of them are recorded when the test returns
C34_Witness ==
    /\ fixedPc = "returned" /\ StopChan
    /\ 0 < submitted /\ submitted < totalRequests
    /\ TotalRequests = submitted /\ Len(fixedW) > 1

\* C32: at every adaptive adjustment the rate moves down if and only if the
\* window's error rate, failures * 100 / (successes + failures), is strictly
\* greater than the error threshold, and up otherwise; a window without a
\* completed request counts as error rate 0 and leads to an increase.
C32_StrictDirection ==
    [][(genPc = "loadFailed" /\ nAdjust' = nAdjust + 1)
        => LET rs == recentSuccess
               rf == recentFailedRequests
               ac == cfg.AdaptiveConfig
               above == rs + rf > 0 /\ rf * 100 > ac.ErrorThresholdPercentage * (rs + rf)
           IN  currentTargetRPS' = IF above THEN DecreaseRPS(currentTargetRPS, ac)
                                   ELSE IncreaseRPS(currentTargetRPS, ac)]_vars


=============================================================================
